---- MODULE Spec2Model ----
(***************************************************************************)
(* Model of the template-driven metadata generator of                      *)
(* server/services/geminiService.js: topic extraction, content-type        *)
(* detection, template selection and interpolation, tone transformation.   *)
(* JavaScript strings are TLA+ strings; a character is a string of length  *)
(* one, taken with SubSeq.                                                 *)
(***************************************************************************)
EXTENDS Integers, Sequences, FiniteSets, TLC

\* pc:     "start" before the operation under study has run, "done" after
\* req:    the inputs of the operation (the fields of req.body, and the
\*         topic count of a direct extractKeyTopics call)
\* result: what the operation returned
\* prohibitedWords: the module object require('../data/prohibited-words.json')
\*         gives, loaded once and shared by all requests
\* isAvailable, initialized: the fields of the GeminiService object
\* env:     the environment of the service: whether GEMINI_API_KEY is set
\* initPc:  the position of init(): "probing" while the startup probe is
\*          awaited, "checked" once checkAvailability has returned, "done"
\* callers: for each caller of generateMetadata, its position, whether it
\*          has awaited the timer, its model calls and their promises, its
\*          uses of templateFallback and the value returned to it
VARIABLES pc, req, result, prohibitedWords, isAvailable, initialized, env, initPc, callers, requests, client

vars == <<pc, req, result, prohibitedWords, isAvailable, initialized, env, initPc, callers, requests, client>>

(***************************************************************************)
(* Bounds of the model.                                                    *)
(***************************************************************************)
\* number of vocabulary pieces concatenated into one content text
MaxPieces == 3
\* number of vocabulary pieces in a text given to detectContentType
MaxDetectPieces == 2
\* largest topic count requested from extractKeyTopics
MaxTopicsArg == 3

(***************************************************************************)
(* JavaScript string primitives.                                           *)
(***************************************************************************)
UpperLetters == "ABCDEFGHIJKLMNOPQRSTUVWXYZ"
LowerLetters == "abcdefghijklmnopqrstuvwxyz"
Digits == "0123456789"

\* An optional JavaScript value (an argument or body field that may be absent):
\* a string, or undefined.
Str(s) == [defined |-> TRUE, val |-> s]

undefined == [defined |-> FALSE, val |-> ""]

\* the element of a one-element set: the value of an expression whose local
\* constants are bound over one-element sets, so that each is evaluated once
Only(S) == CHOOSE x \in S : TRUE

\* ToBoolean of an optional string
truthy(v) == v.defined /\ v.val # ""

\* ToString of an optional string, as a template literal interpolates it
toStr(v) == IF v.defined THEN v.val ELSE "undefined"

\* String.prototype.charAt, 1-based: the empty string outside the string
CharAt(s, i) == IF i >= 1 /\ i <= Len(s) THEN SubSeq(s, i, i) ELSE ""

CharSet(s) == { CharAt(s, i) : i \in 1..Len(s) }

IndexIn(s, c) == CHOOSE i \in 1..Len(s) : CharAt(s, i) = c

UpperSet == CharSet(UpperLetters)

LowerSet == CharSet(LowerLetters)

DigitSet == CharSet(Digits)

WordCharSet == UpperSet \cup LowerSet \cup DigitSet \cup {"_"}

\* \w of a JavaScript regular expression
IsWordChar(c) == c \in WordCharSet

\* \s of a JavaScript regular expression (the white space the model's texts use)
IsSpace(c) == c \in {" ", "\t", "\n"}

LowerMap == [c \in UpperSet |-> CharAt(LowerLetters, IndexIn(UpperLetters, c))]

UpperMap == [c \in LowerSet |-> CharAt(UpperLetters, IndexIn(LowerLetters, c))]

LowerChar(c) == IF c \in UpperSet THEN LowerMap[c] ELSE c

UpperChar(c) == IF c \in LowerSet THEN UpperMap[c] ELSE c

\* the concatenation of F(s, i) for i = lo..hi, by halving the range
RECURSIVE mapRange(_, _, _, _)
mapRange(F(_, _), s, lo, hi) ==
    IF lo > hi THEN ""
    ELSE IF lo = hi THEN F(s, lo)
    ELSE LET mid == (lo + hi) \div 2
         IN  mapRange(F, s, lo, mid) \o mapRange(F, s, mid + 1, hi)

toLowerCase(s) == mapRange(LAMBDA str, i : LowerChar(CharAt(str, i)), s, 1, Len(s))

toUpperCase(s) == mapRange(LAMBDA str, i : UpperChar(CharAt(str, i)), s, 1, Len(s))

\* String.prototype.slice(from) for a non-negative from (0-based)
sliceFrom(s, from) == SubSeq(s, from + 1, Len(s))

\* String.prototype.charAt(0)
charAt0(s) == CharAt(s, 1)

\* pat occurs in s at position i
startsWithAt(s, i, pat) == i + Len(pat) - 1 <= Len(s) /\ SubSeq(s, i, i + Len(pat) - 1) = pat

\* String.prototype.includes
includes(s, pat) == \E i \in 1..(Len(s) - Len(pat) + 1) : startsWithAt(s, i, pat)

endsWith(s, pat) == Len(pat) <= Len(s) /\ SubSeq(s, Len(s) - Len(pat) + 1, Len(s)) = pat

RECURSIVE trimStart(_)
trimStart(s) == IF s # "" /\ IsSpace(Head(s)) THEN trimStart(Tail(s)) ELSE s

RECURSIVE trimEnd(_)
trimEnd(s) == IF s # "" /\ IsSpace(CharAt(s, Len(s))) THEN trimEnd(SubSeq(s, 1, Len(s) - 1)) ELSE s

\* String.prototype.trim
trim(s) == trimEnd(trimStart(s))

\* s.replace(/[^\w\s]/g, ' ')
replaceNonWord(s) ==
    mapRange(LAMBDA str, i : IF IsWordChar(CharAt(str, i)) \/ IsSpace(CharAt(str, i)) THEN CharAt(str, i) ELSE " ",
             s, 1, Len(s))

\* s.replace(/\s+/g, ' '): every maximal run of white space becomes one space
collapseSpaces(s) ==
    mapRange(LAMBDA str, i : IF ~IsSpace(CharAt(str, i)) THEN CharAt(str, i)
                             ELSE IF i > 1 /\ IsSpace(CharAt(str, i - 1)) THEN "" ELSE " ",
             s, 1, Len(s))

\* length of the longest prefix of s without white space
RECURSIVE wordLen(_)
wordLen(s) == IF s = "" \/ IsSpace(Head(s)) THEN 0 ELSE 1 + wordLen(Tail(s))

\* length of the longest prefix of s made of white space
RECURSIVE spaceLen(_)
spaceLen(s) == IF s # "" /\ IsSpace(Head(s)) THEN 1 + spaceLen(Tail(s)) ELSE 0

\* s.split(/\s+/): the pieces between maximal runs of white space
RECURSIVE splitSpaces(_)
splitSpaces(s) ==
    LET n == wordLen(s)
        rest == SubSeq(s, n + 1, Len(s))
    IN  IF rest = "" THEN <<SubSeq(s, 1, n)>>
        ELSE <<SubSeq(s, 1, n)>> \o splitSpaces(SubSeq(rest, spaceLen(rest) + 1, Len(rest)))

(***************************************************************************)
(* extractKeyTopics                                                        *)
(***************************************************************************)
commonWords ==
    {"the", "and", "for", "with", "that", "this", "have", "will", "from", "they", "know", "want",
     "been", "good", "much", "some", "time", "very", "when", "come", "just", "into", "than", "more",
     "other", "about", "many", "then", "them", "these", "so", "people", "can", "said", "each",
     "which", "she", "do", "how", "their", "if", "up", "out", "would", "write", "go", "see",
     "number", "no", "way", "could", "my", "first", "water", "call", "who", "oil", "sit", "now",
     "find", "down", "day", "did", "get", "made", "may", "part", "billion", "million", "dollars",
     "year", "years", "continue", "continues", "continuing", "remains", "remain", "reflecting",
     "reflects", "impact", "strong", "financial", "markets", "individuals", "corporations",
     "generosity", "economy", "force", "major", "key"}

\* content.toLowerCase().replace(/[^\w\s]/g, ' ').replace(/\s+/g, ' ').trim()
cleanContent(content) == trim(collapseSpaces(replaceNonWord(toLowerCase(content))))

\* the filter without its stop-word test
wordsKeepingCommon(content) == SelectSeq(splitSpaces(cleanContent(content)), LAMBDA word : Len(word) > 3)

\* cleanContent.split(/\s+/).filter(word => word.length > 3 && !commonWords.has(word))
words(content) == SelectSeq(splitSpaces(cleanContent(content)), LAMBDA word : Len(word) > 3 /\ word \notin commonWords)

\* A property name an ordinary object treats as an array index: canonical
\* decimal digits with a value below 2^32 - 1.  Such keys are enumerated
\* first, in ascending numeric order.
RECURSIVE digitsLess(_, _)
digitsLess(a, b) ==
    IF a = "" THEN FALSE
    ELSE IF Head(a) # Head(b) THEN IndexIn(Digits, Head(a)) < IndexIn(Digits, Head(b))
         ELSE digitsLess(Tail(a), Tail(b))

\* a < b for canonical decimal numerals
numeralLess(a, b) == Len(a) < Len(b) \/ (Len(a) = Len(b) /\ digitsLess(a, b))

isArrayIndex(key) ==
    /\ key # ""
    /\ \A i \in 1..Len(key) : CharAt(key, i) \in DigitSet
    /\ (Len(key) > 1 => Head(key) # "0")
    /\ numeralLess(key, "4294967295")

\* Assigning a number-or-string to wordCount['__proto__'] goes to the
\* inherited setter, which ignores a non-object: no own property is created.
createsOwnProperty(word) == word # "__proto__"

RECURSIVE countOf(_, _)
countOf(ws, word) ==
    IF ws = <<>> THEN 0 ELSE (IF Head(ws) = word THEN 1 ELSE 0) + countOf(Tail(ws), word)

\* the distinct words of ws in order of first occurrence
RECURSIVE firstOccurrences(_, _)
firstOccurrences(ws, seen) ==
    IF ws = <<>> THEN <<>>
    ELSE IF Head(ws) \in seen THEN firstOccurrences(Tail(ws), seen)
         ELSE <<Head(ws)>> \o firstOccurrences(Tail(ws), seen \cup {Head(ws)})

\* ascending insertion of an array-index key
RECURSIVE insertIndexKey(_, _)
insertIndexKey(keys, k) ==
    IF keys = <<>> THEN <<k>>
    ELSE IF numeralLess(k, Head(keys)) THEN <<k>> \o keys
         ELSE <<Head(keys)>> \o insertIndexKey(Tail(keys), k)

RECURSIVE sortIndexKeys(_)
sortIndexKeys(keys) == IF keys = <<>> THEN <<>> ELSE insertIndexKey(sortIndexKeys(Tail(keys)), Head(keys))

\* own property keys of wordCount in enumeration order: array indices
\* ascending, then the other keys in order of creation
ownKeys(ws) ==
    LET created == SelectSeq(firstOccurrences(ws, {}), createsOwnProperty)
    IN  sortIndexKeys(SelectSeq(created, isArrayIndex)) \o SelectSeq(created, LAMBDA k : ~isArrayIndex(k))

\* Object.entries(wordCount) after the forEach that counts the words
wordCountEntries(ws) == [i \in 1..Len(ownKeys(ws)) |-> [word |-> ownKeys(ws)[i], n |-> countOf(ws, ownKeys(ws)[i])]]

\* .sort(([,a], [,b]) => b - a): stable, descending by count
RECURSIVE insertByCount(_, _)
insertByCount(sorted, e) ==
    IF sorted = <<>> THEN <<e>>
    ELSE IF Head(sorted).n < e.n THEN <<e>> \o sorted
         ELSE <<Head(sorted)>> \o insertByCount(Tail(sorted), e)

RECURSIVE sortByCount(_)
sortByCount(es) ==
    IF es = <<>> THEN <<>> ELSE insertByCount(sortByCount(SubSeq(es, 1, Len(es) - 1)), es[Len(es)])

\* Array.prototype.slice(0, end)
slice0(s, end) ==
    LET e == IF end < 0 THEN Len(s) + end ELSE end
    IN  SubSeq(s, 1, IF e > Len(s) THEN Len(s) ELSE e)

\* the ranked topics before padding
rankedTopics(content, maxTopics) ==
    LET top == slice0(sortByCount(wordCountEntries(words(content))), maxTopics)
    IN  [i \in 1..Len(top) |-> top[i].word]

\* the padding with the same filler whether or not a topic was found
extractKeyTopicsOnePadding(content, maxTopics) ==
    LET topics == rankedTopics(content, maxTopics)
    IN  IF Len(topics) = 0 THEN <<"content", "strategies", "success">>
        ELSE IF Len(topics) = 1 THEN topics \o <<"strategies", "success">>
        ELSE IF Len(topics) = 2 THEN topics \o <<"success">>
        ELSE topics

extractKeyTopics(content, maxTopics) ==
    LET topics == rankedTopics(content, maxTopics)
    IN  IF Len(topics) = 0 THEN <<"content", "information", "strategies">>
        ELSE IF Len(topics) = 1 THEN topics \o <<"strategies", "success">>
        ELSE IF Len(topics) = 2 THEN topics \o <<"success">>
        ELSE topics

(***************************************************************************)
(* ensureCompleteWord                                                      *)
(***************************************************************************)
ensureCompleteWord(word) ==
    IF word = "" \/ Len(word) < 3 THEN "content"
    ELSE IF endsWith(word, "for") THEN SubSeq(word, 1, Len(word) - 3) \o "marketing"
    ELSE word

(***************************************************************************)
(* detectContentType                                                       *)
(***************************************************************************)
\* Object.keys(keywords), in the order the literal lists them
keywordTypes == <<"charitable", "financial", "business", "technology", "health", "education">>

keywords ==
    [ charitable |-> <<"charitable", "donation", "donations", "giving", "philanthropy", "nonprofit", "charity", "fundraising">>,
      financial  |-> <<"financial", "investment", "investing", "money", "finance", "economic", "economy", "market", "markets">>,
      business   |-> <<"business", "company", "corporate", "enterprise", "startup", "entrepreneur">>,
      technology |-> <<"technology", "tech", "software", "app", "digital", "online", "web", "internet">>,
      health     |-> <<"health", "medical", "wellness", "fitness", "nutrition", "healthcare">>,
      education  |-> <<"education", "learning", "teaching", "school", "university", "course", "training">> ]

\* keywords[type].filter(keyword => lowerContent.includes(keyword)).length
matches(type, lowerContent) == Len(SelectSeq(keywords[type], LAMBDA keyword : includes(lowerContent, keyword)))

\* the scores taken on the text as given, not lower-cased
scoresCaseSensitive(content) ==
    [ charitable |-> matches("charitable", content),
      financial  |-> matches("financial", content),
      business   |-> matches("business", content),
      technology |-> matches("technology", content),
      health     |-> matches("health", content),
      education  |-> matches("education", content) ]

\* the scores object; lowerContent is evaluated once
scores(content) ==
    Only({ [ charitable |-> matches("charitable", lowerContent),
             financial  |-> matches("financial", lowerContent),
             business   |-> matches("business", lowerContent),
             technology |-> matches("technology", lowerContent),
             health     |-> matches("health", lowerContent),
             education  |-> matches("education", lowerContent) ] : lowerContent \in {toLowerCase(content)} })

\* a callback that keeps the accumulated key on equal scores
reduceStepKeepingFirst(sc, a, b) == IF sc[a] >= sc[b] THEN a ELSE b

\* the callback of the reduce: (a, b) => scores[a] > scores[b] ? a : b
reduceStep(sc, a, b) == IF sc[a] > sc[b] THEN a ELSE b

\* Object.keys(scores).reduce(callback), no initial value: a left fold that
\* starts from the first key
RECURSIVE reduceTypes(_, _, _)
reduceTypes(sc, acc, rest) ==
    IF rest = <<>> THEN acc ELSE reduceTypes(sc, reduceStep(sc, acc, Head(rest)), Tail(rest))

detectedTypeOf(sc) == reduceTypes(sc, Head(keywordTypes), Tail(keywordTypes))

\* the override at a single keyword match
detectContentTypeAtOne(content, userSelectedType) ==
    Only({ IF sc[detectedTypeOf(sc)] >= 1 THEN Str(detectedTypeOf(sc)) ELSE userSelectedType :
           sc \in {scores(content)} })

\* the detected type when its score is at least 2, otherwise userSelectedType
detectContentType(content, userSelectedType) ==
    Only({ IF sc[detectedTypeOf(sc)] >= 2 THEN Str(detectedTypeOf(sc)) ELSE userSelectedType :
           sc \in {scores(content)} })

(***************************************************************************)
(* Regular-expression replacement: s.replace(/p1|p2|.../g, replacement)    *)
(***************************************************************************)
\* the first alternative of pattern that matches key at position i, or 0
firstMatch(key, i, pattern) ==
    IF \E j \in 1..Len(pattern) : startsWithAt(key, i, pattern[j])
    THEN CHOOSE j \in 1..Len(pattern) :
            /\ startsWithAt(key, i, pattern[j])
            /\ \A k \in 1..(j - 1) : ~startsWithAt(key, i, pattern[k])
    ELSE 0

Min(S) == CHOOSE p \in S : \A q \in S : p <= q

Max(S) == CHOOSE p \in S : \A q \in S : p >= q

\* Copy s from position i, replacing the leftmost match at or after i and
\* continuing behind it; key is s, lower-cased when the i flag is set.
RECURSIVE replaceScan(_, _, _, _, _)
replaceScan(s, key, i, pattern, replacement) ==
    LET starts == { p \in i..Len(s) : firstMatch(key, p, pattern) # 0 }
    IN  IF starts = {} THEN SubSeq(s, i, Len(s))
        ELSE LET p == Min(starts)
                 j == firstMatch(key, p, pattern)
             IN  SubSeq(s, i, p - 1) \o replacement \o replaceScan(s, key, p + Len(pattern[j]), pattern, replacement)

\* the replacement without the g flag: the leftmost match only
replaceFirstOnly(s, rule) ==
    LET key == IF rule.ignoreCase THEN toLowerCase(s) ELSE s
        pattern == IF rule.ignoreCase
                   THEN [j \in 1..Len(rule.pattern) |-> toLowerCase(rule.pattern[j])]
                   ELSE rule.pattern
        starts == { p \in 1..Len(s) : firstMatch(key, p, pattern) # 0 }
    IN  IF starts = {} THEN s
        ELSE LET p == Min(starts)
                 j == firstMatch(key, p, pattern)
             IN  SubSeq(s, 1, p - 1) \o rule.replacement \o SubSeq(s, p + Len(pattern[j]), Len(s))

\* s.replace(/.../g, replacement), or /.../gi when rule.ignoreCase
replaceAll(s, rule) ==
    LET key == IF rule.ignoreCase THEN toLowerCase(s) ELSE s
        pattern == IF rule.ignoreCase
                   THEN [j \in 1..Len(rule.pattern) |-> toLowerCase(rule.pattern[j])]
                   ELSE rule.pattern
    IN  replaceScan(s, key, 1, pattern, rule.replacement)

\* the chain run from its last call to its first
RECURSIVE applyRulesLastFirst(_, _)
applyRulesLastFirst(s, rules) ==
    IF rules = <<>> THEN s
    ELSE applyRulesLastFirst(replaceAll(s, rules[Len(rules)]), SubSeq(rules, 1, Len(rules) - 1))

\* a chain of .replace calls, each applied to the result of the one before
RECURSIVE applyRules(_, _)
applyRules(s, rules) == IF rules = <<>> THEN s ELSE applyRules(replaceAll(s, Head(rules)), Tail(rules))

(***************************************************************************)
(* formatHashtags                                                          *)
(***************************************************************************)
RECURSIVE wordCharsLen(_, _)
wordCharsLen(s, i) == IF i <= Len(s) /\ IsWordChar(CharAt(s, i)) THEN 1 + wordCharsLen(s, i + 1) ELSE 0

\* hashtag.replace(/([A-Z])/g, ' $1')
RECURSIVE spaceBeforeCapitals(_)
spaceBeforeCapitals(s) ==
    IF s = "" THEN ""
    ELSE (IF Head(s) \in UpperSet THEN " " \o Head(s) ELSE Head(s)) \o spaceBeforeCapitals(Tail(s))

\* s.split(' '): a piece between every two single spaces
RECURSIVE splitOnSpace(_)
splitOnSpace(s) ==
    LET n == IF includes(s, " ") THEN (CHOOSE i \in 1..Len(s) : CharAt(s, i) = " " /\ ~includes(SubSeq(s, 1, i - 1), " ")) ELSE 0
    IN  IF n = 0 THEN <<s>> ELSE <<SubSeq(s, 1, n - 1)>> \o splitOnSpace(SubSeq(s, n + 1, Len(s)))

RECURSIVE join(_)
join(ws) == IF ws = <<>> THEN "" ELSE Head(ws) \o join(Tail(ws))

\* a callback that leaves a hashtag with a capital letter or an underscore as it is
formatHashtagPlainOnly(hashtag) ==
    IF ~includes(hashtag, "_") /\ ~(\E i \in 1..Len(hashtag) : CharAt(hashtag, i) \in UpperSet)
    THEN "#" \o toUpperCase(charAt0(hashtag)) \o sliceFrom(hashtag, 1)
    ELSE "#" \o hashtag

\* the callback of formatHashtags, applied to the word after '#'
formatHashtag(hashtag) ==
    IF ~includes(hashtag, "_") /\ ~(\E i \in 1..Len(hashtag) : CharAt(hashtag, i) \in UpperSet)
    THEN "#" \o toUpperCase(charAt0(hashtag)) \o sliceFrom(hashtag, 1)
    ELSE LET pieces == splitOnSpace(trim(spaceBeforeCapitals(hashtag)))
         IN  "#" \o join([k \in 1..Len(pieces) |->
                            toUpperCase(charAt0(pieces[k])) \o toLowerCase(sliceFrom(pieces[k], 1))])

\* text.replace(/#(\w+)/g, callback): copy text from position i, rewriting
\* the next '#' that a word character follows and continuing behind its word
RECURSIVE formatHashtagsFrom(_, _)
formatHashtagsFrom(text, i) ==
    LET starts == { p \in i..Len(text) : CharAt(text, p) = "#" /\ IsWordChar(CharAt(text, p + 1)) }
    IN  IF starts = {} THEN SubSeq(text, i, Len(text))
        ELSE LET p == Min(starts)
                 n == wordCharsLen(text, p + 1)
             IN  SubSeq(text, i, p - 1) \o formatHashtag(SubSeq(text, p + 1, p + n)) \o formatHashtagsFrom(text, p + n + 1)

formatHashtags(text) == formatHashtagsFrom(text, 1)

(***************************************************************************)
(* Template tables of generateTitles, generateDescriptions and             *)
(* generateSocialCopy.  A character outside ASCII is written {code point}. *)
(***************************************************************************)
\* the capital letter without the rest of the word
capitalLetterOnly(w) == toUpperCase(charAt0(w))

\* mainTopic.charAt(0).toUpperCase() + mainTopic.slice(1)
capitalize(w) == toUpperCase(charAt0(w)) \o sliceFrom(w, 1)

titleTemplates(mainTopic, secondaryTopic, targetAudience) ==
    [ article |-> <<
        "The Complete Guide to " \o capitalize(mainTopic),
        "The Ultimate " \o capitalize(mainTopic) \o " Guide for " \o toStr(targetAudience),
        capitalize(mainTopic) \o ": What Every " \o toStr(targetAudience) \o " Needs to Know",
        "How to Master " \o capitalize(mainTopic) \o " in 2024",
        "The Definitive Guide to " \o capitalize(mainTopic),
        "Solving " \o capitalize(mainTopic) \o " Challenges: A " \o toStr(targetAudience) \o " Guide",
        "Common " \o capitalize(mainTopic) \o " Mistakes and How to Avoid Them",
        "The " \o capitalize(mainTopic) \o " Roadmap: From Beginner to Expert",
        "Unlock the Power of " \o capitalize(mainTopic),
        capitalize(mainTopic) \o " Strategies That Actually Work",
        "Transform Your " \o secondaryTopic \o " with " \o capitalize(mainTopic),
        capitalize(mainTopic) \o " Best Practices for " \o toStr(targetAudience),
        "The Future of " \o capitalize(mainTopic) \o ": Trends and Insights",
        capitalize(mainTopic) \o " Fundamentals Every " \o toStr(targetAudience) \o " Should Master"
    >>,
      blog |-> <<
        "Why " \o capitalize(mainTopic) \o " Matters More Than Ever",
        "The Hidden Truth About " \o capitalize(mainTopic),
        capitalize(mainTopic) \o ": Tips and Tricks You'll Love",
        "Discover the Power of " \o capitalize(mainTopic),
        capitalize(mainTopic) \o ": Everything You've Been Missing",
        "How " \o capitalize(mainTopic) \o " Changed My Business",
        "The Real Story Behind " \o capitalize(mainTopic) \o " Success",
        "What I Learned About " \o capitalize(mainTopic) \o " the Hard Way",
        "The " \o capitalize(mainTopic) \o " Secret Nobody Talks About",
        "Is " \o capitalize(mainTopic) \o " Worth Your Time? Here's the Truth",
        capitalize(mainTopic) \o ": The Good, the Bad, and the Ugly",
        "Ready to Level Up Your " \o capitalize(mainTopic) \o "?",
        capitalize(mainTopic) \o ": Your Action Plan for Success",
        "Stop Struggling with " \o capitalize(mainTopic) \o " - Try This Instead"
    >>,
      product |-> <<
        "Transform Your " \o capitalize(mainTopic) \o " Experience",
        "The Future of " \o capitalize(mainTopic) \o " is Here",
        "Revolutionary " \o capitalize(mainTopic) \o " Solutions",
        "Upgrade Your " \o capitalize(mainTopic) \o " Today",
        "Premium " \o capitalize(mainTopic) \o " for Modern Needs",
        "Introducing the Next Generation of " \o capitalize(mainTopic),
        capitalize(mainTopic) \o " Made Simple: Powerful Features, Easy Use",
        "The " \o capitalize(mainTopic) \o " Tool You've Been Waiting For",
        "Save Time and Money with Smart " \o capitalize(mainTopic),
        "Boost Your " \o secondaryTopic \o " with Advanced " \o capitalize(mainTopic),
        "Professional " \o capitalize(mainTopic) \o " at an Affordable Price",
        "Why Choose Our " \o capitalize(mainTopic) \o " Over the Competition",
        "The " \o capitalize(mainTopic) \o " Difference: Quality You Can Trust",
        "Built for " \o toStr(targetAudience) \o ": The " \o capitalize(mainTopic) \o " Solution"
    >>,
      service |-> <<
        "Professional " \o capitalize(mainTopic) \o " Services",
        "Expert " \o capitalize(mainTopic) \o " Solutions",
        "Trusted " \o capitalize(mainTopic) \o " Partners",
        "Quality " \o capitalize(mainTopic) \o " Guaranteed",
        "Your " \o capitalize(mainTopic) \o " Success Partner",
        "Custom " \o capitalize(mainTopic) \o " Solutions for " \o toStr(targetAudience),
        "Full-Service " \o capitalize(mainTopic) \o " Support",
        "Dedicated " \o capitalize(mainTopic) \o " Team at Your Service",
        "Get More Value from Your " \o capitalize(mainTopic) \o " Investment",
        "Streamline Your " \o secondaryTopic \o " with Professional " \o capitalize(mainTopic),
        "Expert " \o capitalize(mainTopic) \o " Consultation and Implementation",
        capitalize(mainTopic) \o " Services Tailored for " \o toStr(targetAudience),
        "Proven " \o capitalize(mainTopic) \o " Methods for Business Growth",
        "Reliable " \o capitalize(mainTopic) \o " Support When You Need It Most"
    >>,
      video |-> <<
        "The Ultimate " \o capitalize(mainTopic) \o " Video Guide",
        "Watch: Complete " \o capitalize(mainTopic) \o " Tutorial",
        capitalize(mainTopic) \o ": Everything You Need to Know (Video)",
        "Master " \o capitalize(mainTopic) \o " in This Comprehensive Video",
        "Video Guide: " \o capitalize(mainTopic) \o " Best Practices",
        "Learn " \o capitalize(mainTopic) \o " Step-by-Step (Video Tutorial)",
        "Video Tutorial: " \o capitalize(mainTopic) \o " for " \o toStr(targetAudience),
        "Complete " \o capitalize(mainTopic) \o " Video Course",
        "Must-Watch: " \o capitalize(mainTopic) \o " Video Guide",
        "Video: The Truth About " \o capitalize(mainTopic),
        capitalize(mainTopic) \o " Secrets Revealed (Video)",
        "Transform Your " \o capitalize(mainTopic) \o " with This Video",
        "Video: " \o capitalize(mainTopic) \o " Strategies That Work",
        "Watch and Learn: " \o capitalize(mainTopic) \o " Masterclass"
    >>,
      email |-> <<
        "Email Marketing: " \o capitalize(mainTopic) \o " Best Practices",
        "The Complete " \o capitalize(mainTopic) \o " Email Guide",
        "Email Strategy: " \o capitalize(mainTopic) \o " for " \o toStr(targetAudience),
        "Master Email " \o capitalize(mainTopic) \o " in 2024",
        "Email Marketing " \o capitalize(mainTopic) \o " That Converts",
        "Email Campaign: " \o capitalize(mainTopic) \o " Success Strategies",
        "Email Templates for " \o capitalize(mainTopic),
        "Email Automation: " \o capitalize(mainTopic) \o " Workflows",
        "Boost Email Engagement with " \o capitalize(mainTopic),
        "Email Subject Lines: " \o capitalize(mainTopic) \o " That Get Opens",
        "Email Content: " \o capitalize(mainTopic) \o " Best Practices",
        "Email ROI: " \o capitalize(mainTopic) \o " Strategies That Work",
        "Email Marketing ROI: " \o capitalize(mainTopic) \o " for Growth",
        "Email Success: " \o capitalize(mainTopic) \o " Case Studies"
    >>,
      social |-> <<
        "Social Media " \o capitalize(mainTopic) \o " Strategy",
        "The Complete " \o capitalize(mainTopic) \o " Social Media Guide",
        "Social Media Marketing: " \o capitalize(mainTopic) \o " Best Practices",
        "Master Social Media " \o capitalize(mainTopic) \o " in 2024",
        "Social Media " \o capitalize(mainTopic) \o " for " \o toStr(targetAudience),
        "Instagram " \o capitalize(mainTopic) \o " Strategy",
        "Facebook " \o capitalize(mainTopic) \o " Guide",
        "LinkedIn " \o capitalize(mainTopic) \o " Best Practices",
        "Boost Social Media Engagement with " \o capitalize(mainTopic),
        "Social Media Content: " \o capitalize(mainTopic) \o " That Gets Shares",
        "Social Media Growth: " \o capitalize(mainTopic) \o " Strategies",
        "Social Media ROI: " \o capitalize(mainTopic) \o " That Converts",
        "Social Media Success: " \o capitalize(mainTopic) \o " Case Studies",
        "Social Media Marketing: " \o capitalize(mainTopic) \o " for Business Growth"
    >>,
      landing |-> <<
        "Landing Page " \o capitalize(mainTopic) \o " Optimization",
        "The Complete " \o capitalize(mainTopic) \o " Landing Page Guide",
        "Landing Page Design: " \o capitalize(mainTopic) \o " Best Practices",
        "Master Landing Page " \o capitalize(mainTopic) \o " in 2024",
        "Landing Page " \o capitalize(mainTopic) \o " for " \o toStr(targetAudience),
        "Landing Page Conversion: " \o capitalize(mainTopic) \o " Strategies",
        "High-Converting Landing Page " \o capitalize(mainTopic),
        "Landing Page Optimization: " \o capitalize(mainTopic) \o " Techniques",
        "Landing Page Design: " \o capitalize(mainTopic) \o " Principles",
        "Landing Page UX: " \o capitalize(mainTopic) \o " Best Practices",
        "Landing Page Copy: " \o capitalize(mainTopic) \o " That Converts",
        "Landing Page Performance: " \o capitalize(mainTopic) \o " Optimization",
        "Landing Page ROI: " \o capitalize(mainTopic) \o " Strategies",
        "Landing Page Success: " \o capitalize(mainTopic) \o " Case Studies"
    >>,
      charitable |-> <<
        "The Impact of " \o capitalize(mainTopic) \o ": A Complete Guide",
        "Understanding " \o capitalize(mainTopic) \o " in 2024",
        capitalize(mainTopic) \o ": Trends and Insights for " \o toStr(targetAudience),
        "The Future of " \o capitalize(mainTopic) \o ": What You Need to Know",
        capitalize(mainTopic) \o " Statistics and Analysis",
        "How " \o capitalize(mainTopic) \o " is Changing the World",
        "The Power of " \o capitalize(mainTopic) \o ": Real Impact Stories",
        capitalize(mainTopic) \o ": Making a Difference in 2024",
        "Everything You Need to Know About " \o capitalize(mainTopic),
        capitalize(mainTopic) \o ": A Comprehensive Overview",
        "The Complete Guide to " \o capitalize(mainTopic),
        capitalize(mainTopic) \o " Trends in 2024: What's New",
        "The State of " \o capitalize(mainTopic) \o ": Current Landscape",
        capitalize(mainTopic) \o ": Key Insights and Opportunities"
    >>,
      financial |-> <<
        capitalize(mainTopic) \o ": Financial Insights and Analysis",
        "The Economics of " \o capitalize(mainTopic),
        capitalize(mainTopic) \o ": Market Trends and Opportunities",
        "Financial Impact of " \o capitalize(mainTopic) \o " in 2024",
        capitalize(mainTopic) \o ": Investment and Growth Strategies",
        capitalize(mainTopic) \o " Market Analysis: What You Need to Know",
        "The Financial Landscape of " \o capitalize(mainTopic),
        capitalize(mainTopic) \o ": Economic Trends and Forecasts",
        capitalize(mainTopic) \o ": Strategic Financial Planning",
        "Maximizing Returns in " \o capitalize(mainTopic),
        capitalize(mainTopic) \o ": Financial Best Practices",
        capitalize(mainTopic) \o ": Growth Opportunities and Strategies",
        "The Financial Future of " \o capitalize(mainTopic),
        capitalize(mainTopic) \o ": Investment Insights for " \o toStr(targetAudience)
    >> ]

titleToneRules ==
    [ professional |-> <<
        [pattern |-> <<"!">>, ignoreCase |-> FALSE, replacement |-> "."],
        [pattern |-> <<"{287}{376}{8221}{165}", "{287}{376}{353}{8364}", "{226}{339}{168}", "{287}{376}{8217}{161}", "{287}{376}{175}">>, ignoreCase |-> FALSE, replacement |-> ""],
        [pattern |-> <<"Complete Guide">>, ignoreCase |-> FALSE, replacement |-> "Comprehensive Guide"],
        [pattern |-> <<"Ultimate">>, ignoreCase |-> FALSE, replacement |-> "Definitive"],
        [pattern |-> <<"Master">>, ignoreCase |-> FALSE, replacement |-> "Excel in"],
        [pattern |-> <<"Tips and Tricks">>, ignoreCase |-> FALSE, replacement |-> "Proven Strategies"],
        [pattern |-> <<"Awesome", "Amazing">>, ignoreCase |-> FALSE, replacement |-> "Exceptional"],
        [pattern |-> <<"Level Up">>, ignoreCase |-> FALSE, replacement |-> "Optimize"]
    >>,
      casual |-> <<
        [pattern |-> <<"Professional", "Expert", "Trusted", "Quality">>, ignoreCase |-> FALSE, replacement |-> "Awesome"],
        [pattern |-> <<"Revolutionary", "Premium">>, ignoreCase |-> FALSE, replacement |-> "Amazing"],
        [pattern |-> <<"Transform", "Upgrade">>, ignoreCase |-> FALSE, replacement |-> "Level Up"],
        [pattern |-> <<"Complete Guide">>, ignoreCase |-> FALSE, replacement |-> "Complete Guide"],
        [pattern |-> <<"Ultimate">>, ignoreCase |-> FALSE, replacement |-> "Best"],
        [pattern |-> <<"Master">>, ignoreCase |-> FALSE, replacement |-> "Get Good at"],
        [pattern |-> <<"Comprehensive">>, ignoreCase |-> FALSE, replacement |-> "Complete"],
        [pattern |-> <<"Essential">>, ignoreCase |-> FALSE, replacement |-> "Important"],
        [pattern |-> <<"Definitive">>, ignoreCase |-> FALSE, replacement |-> "Best"],
        [pattern |-> <<"Excel in">>, ignoreCase |-> FALSE, replacement |-> "Get Good at"]
    >>,
      friendly |-> <<
        [pattern |-> <<"Professional", "Expert">>, ignoreCase |-> FALSE, replacement |-> "Friendly"],
        [pattern |-> <<"Revolutionary">>, ignoreCase |-> FALSE, replacement |-> "Game-Changing"],
        [pattern |-> <<"Transform">>, ignoreCase |-> FALSE, replacement |-> "Improve"],
        [pattern |-> <<"Complete Guide">>, ignoreCase |-> FALSE, replacement |-> "Friendly Guide to"],
        [pattern |-> <<"Ultimate">>, ignoreCase |-> FALSE, replacement |-> "Best"],
        [pattern |-> <<"Master">>, ignoreCase |-> FALSE, replacement |-> "Learn"],
        [pattern |-> <<"Comprehensive">>, ignoreCase |-> FALSE, replacement |-> "Complete"],
        [pattern |-> <<"Definitive">>, ignoreCase |-> FALSE, replacement |-> "Best"],
        [pattern |-> <<"Excel in">>, ignoreCase |-> FALSE, replacement |-> "Learn"]
    >>,
      authoritative |-> <<
        [pattern |-> <<"Tips and Tricks">>, ignoreCase |-> FALSE, replacement |-> "Proven Strategies"],
        [pattern |-> <<"Everything You've Been Missing">>, ignoreCase |-> FALSE, replacement |-> "Critical Insights"],
        [pattern |-> <<"What You Need to Know">>, ignoreCase |-> FALSE, replacement |-> "Essential Knowledge"],
        [pattern |-> <<"Complete Guide">>, ignoreCase |-> FALSE, replacement |-> "Expert Guide to"],
        [pattern |-> <<"Ultimate">>, ignoreCase |-> FALSE, replacement |-> "Definitive"],
        [pattern |-> <<"Master">>, ignoreCase |-> FALSE, replacement |-> "Master"],
        [pattern |-> <<"Comprehensive">>, ignoreCase |-> FALSE, replacement |-> "Comprehensive"],
        [pattern |-> <<"Essential">>, ignoreCase |-> FALSE, replacement |-> "Essential"],
        [pattern |-> <<"Get Good at">>, ignoreCase |-> FALSE, replacement |-> "Master"],
        [pattern |-> <<"Learn">>, ignoreCase |-> FALSE, replacement |-> "Master"]
    >> ]

descriptionTemplates(mainTopic, secondaryTopic, targetAudience, validAudience) ==
    [ article |-> <<
        "Discover everything you need to know about " \o mainTopic \o " and " \o secondaryTopic \o ". Expert insights, practical tips, and actionable strategies to help you succeed.",
        "Learn the essential strategies for mastering " \o mainTopic \o ". From beginner basics to advanced techniques, this comprehensive guide covers it all.",
        "Explore the latest trends and best practices in " \o mainTopic \o ". Get expert advice and real-world examples to improve your results.",
        "Struggling with " \o mainTopic \o "? This comprehensive guide breaks down complex concepts into simple, actionable steps for " \o validAudience \o ".",
        "Master " \o mainTopic \o " with proven methodologies and industry best practices. Perfect for " \o validAudience \o " looking to enhance their skills.",
        "Transform your understanding of " \o mainTopic \o " with expert analysis, case studies, and practical implementation strategies.",
        "Unlock the full potential of " \o mainTopic \o " with our detailed guide. Learn proven techniques that deliver measurable results for " \o validAudience \o ".",
        "Navigate the complexities of " \o mainTopic \o " with confidence. This resource provides the knowledge and tools you need to excel.",
        "Elevate your " \o mainTopic \o " expertise with comprehensive coverage of fundamentals, advanced techniques, and emerging trends."
    >>,
      blog |-> <<
        "Uncover the secrets of " \o mainTopic \o " that most people miss. Practical advice, real stories, and actionable tips to transform your approach.",
        "Dive deep into " \o mainTopic \o " with insights that will change how you think about " \o secondaryTopic \o ". Expert analysis and practical takeaways.",
        "Discover why " \o mainTopic \o " is crucial for success and how to implement it effectively. Real-world examples and proven strategies.",
        "Follow the journey of " \o mainTopic \o " success through real stories and lessons learned. Practical insights for " \o validAudience \o " at every level.",
        "Get behind-the-scenes access to " \o mainTopic \o " strategies that actually work. No fluff, just proven methods and honest advice.",
        "Learn from the mistakes and triumphs of " \o mainTopic \o " implementation. Real experiences shared to help you avoid common pitfalls.",
        "Challenge everything you thought you knew about " \o mainTopic \o ". Fresh perspectives and unconventional approaches for modern " \o validAudience \o ".",
        "Explore the controversial side of " \o mainTopic \o " and discover what really works versus what's just hype.",
        "Question traditional " \o mainTopic \o " methods and discover innovative approaches that deliver better results."
    >>,
      product |-> <<
        "Experience the next generation of " \o mainTopic \o " technology. Innovative features, superior performance, and unmatched reliability for modern needs.",
        "Transform your workflow with our advanced " \o mainTopic \o " solution. Designed for professionals who demand excellence and efficiency.",
        "Upgrade to premium " \o mainTopic \o " quality with cutting-edge features and intuitive design. Built for performance and user satisfaction.",
        "Streamline your " \o mainTopic \o " processes with intelligent automation and powerful analytics. Built specifically for " \o validAudience \o ".",
        "Maximize your " \o mainTopic \o " ROI with our comprehensive suite of tools and features. Everything you need in one integrated platform.",
        "Accelerate your " \o mainTopic \o " success with proven technology that scales with your business.",
        "Reduce costs and increase efficiency with our smart " \o mainTopic \o " solution. Designed to deliver measurable results for " \o validAudience \o ".",
        "Get more done with less effort using our intuitive " \o mainTopic \o " platform. Powerful features wrapped in a user-friendly interface.",
        "Invest in your future with our reliable " \o mainTopic \o " technology. Built to grow with your business and adapt to changing needs."
    >>,
      service |-> <<
        "Professional " \o mainTopic \o " services tailored to your specific needs. Expert consultation, reliable delivery, and ongoing support for your success.",
        "Trust our experienced team for all your " \o mainTopic \o " requirements. Quality service, competitive pricing, and guaranteed satisfaction.",
        "Partner with industry leaders in " \o mainTopic \o " solutions. Comprehensive services, expert guidance, and proven results for your business.",
        "Custom " \o mainTopic \o " solutions designed specifically for " \o toStr(targetAudience) \o ". Personalized approach, expert execution, and measurable outcomes.",
        "Full-service " \o mainTopic \o " support from strategy to implementation. Our dedicated team handles every aspect of your project.",
        "End-to-end " \o mainTopic \o " services that take you from concept to completion. Professional expertise at every step of the process.",
        "Maximize your " \o mainTopic \o " investment with our proven methodologies and experienced team. Results-driven approach for " \o toStr(targetAudience) \o ".",
        "Optimize your " \o mainTopic \o " performance with data-driven insights and strategic guidance. Expert analysis and actionable recommendations.",
        "Scale your " \o mainTopic \o " capabilities with our comprehensive support services. From consultation to ongoing optimization."
    >>,
      video |-> <<
        "Watch our comprehensive " \o mainTopic \o " video guide. Learn step-by-step techniques and best practices for " \o validAudience \o ".",
        "Master " \o mainTopic \o " through our detailed video tutorial. Perfect for " \o validAudience \o " looking to enhance their skills visually.",
        "Discover " \o mainTopic \o " strategies through engaging video content. Real examples and practical demonstrations for immediate application.",
        "Learn " \o mainTopic \o " fundamentals through our video course. From basics to advanced techniques, all explained with clear visual examples.",
        "Visual learning at its best: our " \o mainTopic \o " video series breaks down complex concepts into easy-to-follow tutorials.",
        "Transform your understanding of " \o mainTopic \o " with our comprehensive video library. Expert instruction for " \o validAudience \o "."
    >>,
      email |-> <<
        "Master email marketing " \o mainTopic \o " with our comprehensive guide. Learn proven strategies that drive engagement and conversions for " \o validAudience \o ".",
        "Discover email " \o mainTopic \o " best practices that actually work. From subject lines to content optimization, everything you need to know.",
        "Transform your email campaigns with " \o mainTopic \o " strategies. Expert guidance for " \o validAudience \o " looking to improve email performance.",
        "Learn email " \o mainTopic \o " techniques that boost open rates and click-through rates. Practical strategies for " \o validAudience \o ".",
        "Master email automation " \o mainTopic \o " workflows. Streamline your email marketing and improve results with proven methodologies.",
        "Optimize your email " \o mainTopic \o " for maximum ROI. Data-driven strategies and best practices for modern email marketing."
    >>,
      social |-> <<
        "Master social media " \o mainTopic \o " strategies that drive engagement and growth. Expert guidance for " \o validAudience \o " in the digital age.",
        "Discover social media " \o mainTopic \o " best practices that actually work. From content creation to audience engagement, everything you need to know.",
        "Transform your social media presence with " \o mainTopic \o " techniques. Proven strategies for " \o validAudience \o " looking to grow their online reach.",
        "Learn platform-specific " \o mainTopic \o " strategies for Instagram, Facebook, LinkedIn, and more. Tailored approaches for " \o validAudience \o ".",
        "Master social media " \o mainTopic \o " across all major platforms. Comprehensive strategies that work for every social media channel.",
        "Optimize your social media " \o mainTopic \o " for maximum engagement and conversions. Data-driven approaches for modern social media marketing."
    >>,
      landing |-> <<
        "Master landing page " \o mainTopic \o " optimization techniques. Learn proven strategies that convert visitors into customers for " \o validAudience \o ".",
        "Discover landing page " \o mainTopic \o " best practices that drive conversions. From design to copy optimization, everything you need to know.",
        "Transform your landing page performance with " \o mainTopic \o " strategies. Expert guidance for " \o validAudience \o " looking to improve conversion rates.",
        "Learn landing page " \o mainTopic \o " techniques that boost conversion rates. Practical strategies for " \o validAudience \o " in competitive markets.",
        "Master landing page " \o mainTopic \o " for maximum ROI. Data-driven optimization strategies and best practices for modern landing pages.",
        "Optimize your landing page " \o mainTopic \o " for better user experience and higher conversions. Proven methodologies for " \o validAudience \o "."
    >>,
      charitable |-> <<
        "Discover the latest trends and insights in " \o mainTopic \o ". Learn about the impact of charitable giving and how it's shaping our communities.",
        "Explore the world of " \o mainTopic \o " and understand its significance in today's society. Expert analysis and real-world impact stories.",
        "Learn about the power of " \o mainTopic \o " and how it's making a difference. Comprehensive coverage of trends, statistics, and success stories.",
        "Understand the real impact of " \o mainTopic \o " on communities and individuals. Data-driven insights and compelling stories of change.",
        "Discover how " \o mainTopic \o " is transforming lives and communities. Expert analysis of trends, challenges, and opportunities.",
        "Explore the significance of " \o mainTopic \o " in modern society. Learn about its economic and social impact on our world.",
        "Get comprehensive insights into " \o mainTopic \o " and its role in society. Expert analysis, statistics, and real-world examples.",
        "Master the fundamentals of " \o mainTopic \o " with our detailed guide. From basic concepts to advanced strategies and impact measurement.",
        "Transform your understanding of " \o mainTopic \o " with expert analysis, case studies, and practical insights for " \o validAudience \o "."
    >>,
      financial |-> <<
        "Discover the financial implications of " \o mainTopic \o " and its impact on the economy. Expert analysis and market insights for " \o validAudience \o ".",
        "Learn about the economic aspects of " \o mainTopic \o " and how it affects financial markets and investment opportunities.",
        "Explore the financial landscape of " \o mainTopic \o " with comprehensive analysis of trends, opportunities, and market dynamics.",
        "Understand the market dynamics of " \o mainTopic \o " and its financial impact. Expert insights for investors and financial professionals.",
        "Get detailed analysis of " \o mainTopic \o " from a financial perspective. Market trends, investment opportunities, and economic impact.",
        "Master the financial aspects of " \o mainTopic \o " with expert guidance and comprehensive market analysis for " \o validAudience \o "."
    >> ]

descriptionToneRules ==
    [ professional |-> <<
        [pattern |-> <<"awesome", "amazing", "incredible">>, ignoreCase |-> TRUE, replacement |-> "exceptional"],
        [pattern |-> <<"transform">>, ignoreCase |-> TRUE, replacement |-> "optimize"],
        [pattern |-> <<"secrets">>, ignoreCase |-> TRUE, replacement |-> "insights"],
        [pattern |-> <<"struggling">>, ignoreCase |-> TRUE, replacement |-> "facing challenges with"],
        [pattern |-> <<"unlock">>, ignoreCase |-> TRUE, replacement |-> "access"]
    >>,
      casual |-> <<
        [pattern |-> <<"Professional">>, ignoreCase |-> TRUE, replacement |-> "Awesome"],
        [pattern |-> <<"Expert">>, ignoreCase |-> TRUE, replacement |-> "Pro"],
        [pattern |-> <<"comprehensive">>, ignoreCase |-> TRUE, replacement |-> "complete"],
        [pattern |-> <<"strategies">>, ignoreCase |-> TRUE, replacement |-> "tips"],
        [pattern |-> <<"optimize">>, ignoreCase |-> TRUE, replacement |-> "level up"],
        [pattern |-> <<"exceptional">>, ignoreCase |-> TRUE, replacement |-> "amazing"],
        [pattern |-> <<"insights">>, ignoreCase |-> TRUE, replacement |-> "secrets"]
    >>,
      friendly |-> <<
        [pattern |-> <<"Professional">>, ignoreCase |-> TRUE, replacement |-> "Friendly"],
        [pattern |-> <<"Expert">>, ignoreCase |-> TRUE, replacement |-> "Helpful"],
        [pattern |-> <<"secrets">>, ignoreCase |-> TRUE, replacement |-> "tips"],
        [pattern |-> <<"transform">>, ignoreCase |-> TRUE, replacement |-> "improve"],
        [pattern |-> <<"struggling">>, ignoreCase |-> TRUE, replacement |-> "having trouble with"],
        [pattern |-> <<"unlock">>, ignoreCase |-> TRUE, replacement |-> "discover"]
    >>,
      authoritative |-> <<
        [pattern |-> <<"tips">>, ignoreCase |-> TRUE, replacement |-> "proven strategies"],
        [pattern |-> <<"helpful">>, ignoreCase |-> TRUE, replacement |-> "expert"],
        [pattern |-> <<"improve">>, ignoreCase |-> TRUE, replacement |-> "optimize"],
        [pattern |-> <<"secrets">>, ignoreCase |-> TRUE, replacement |-> "critical insights"],
        [pattern |-> <<"having trouble">>, ignoreCase |-> TRUE, replacement |-> "facing challenges"],
        [pattern |-> <<"discover">>, ignoreCase |-> TRUE, replacement |-> "access"]
    >> ]

socialTemplates(mainTopic, targetAudience, validAudience) ==
    [ article |-> <<
        "{287}{376}{8220}{353} Just published: The ultimate guide to " \o mainTopic \o "! Whether you're a beginner or expert, this comprehensive article has something for everyone. #" \o mainTopic \o " #ContentMarketing",
        "{287}{376}{175} Want to master " \o mainTopic \o "? Our latest article breaks down everything you need to know, from basics to advanced strategies. Check it out! #" \o mainTopic,
        "{287}{376}{8217}{161} New insights on " \o mainTopic \o "! Discover proven strategies and expert tips that will transform your approach. Don't miss this! #" \o mainTopic \o " #Tips",
        "{287}{376}{8221} Struggling with " \o mainTopic \o "? Our new article reveals the most common mistakes and how to avoid them. Essential reading for " \o validAudience \o "! #" \o mainTopic \o " #Tips",
        "{287}{376}{8220}{8211} Just released: The complete " \o mainTopic \o " roadmap from beginner to expert. Perfect for " \o validAudience \o " looking to level up their skills! #" \o mainTopic \o " #Learning",
        "{287}{376}{8220} New article alert! Master " \o mainTopic \o " with our step-by-step guide. From fundamentals to advanced techniques, we've got you covered. #" \o mainTopic \o " #Education",
        "{287}{376}{353}{8364} Transform your " \o mainTopic \o " results with our latest article! Real strategies that actually work, backed by expert analysis. #" \o mainTopic \o " #Results",
        "{287}{376}{8217}{170} Ready to excel in " \o mainTopic \o "? Our comprehensive guide shows you exactly how to implement proven strategies for success. #" \o mainTopic \o " #Success",
        "{287}{376}{8220}{710} Boost your " \o mainTopic \o " performance with our expert insights. Learn from industry leaders and avoid common pitfalls. #" \o mainTopic \o " #Performance"
    >>,
      blog |-> <<
        "{287}{376}{8221}{165} Hot off the press: The truth about " \o mainTopic \o " that nobody talks about! Real insights, practical advice, and actionable takeaways. #" \o mainTopic \o " #Blog",
        "{287}{376}{353}{8364} Just dropped: Everything you need to know about " \o mainTopic \o "! From beginner tips to expert strategies, we've got you covered. #" \o mainTopic \o " #Learning",
        "{226}{339}{168} New blog alert! Discover the secrets of " \o mainTopic \o " and how to implement them effectively. Your success starts here! #" \o mainTopic \o " #Success",
        "{287}{376}{8220}{8211} The real story behind " \o mainTopic \o " success! Learn from real experiences and avoid the mistakes others have made. #" \o mainTopic \o " #Stories",
        "{287}{376}{173} What I learned about " \o mainTopic \o " the hard way - and how you can avoid the same pitfalls. Honest insights from the trenches! #" \o mainTopic \o " #Lessons",
        "{287}{376}{8221} Behind the scenes: How " \o mainTopic \o " changed my business and what you can learn from it. Real results, real stories. #" \o mainTopic \o " #BehindTheScenes",
        "{287}{376}{164}{8221} Is " \o mainTopic \o " worth your time? Here's the honest truth that most people won't tell you. #" \o mainTopic \o " #Truth",
        "{287}{376}{8217}{173} The " \o mainTopic \o " secret nobody talks about - and why it matters for " \o validAudience \o ". You won't believe what we discovered! #" \o mainTopic \o " #Secrets",
        "{226}{8220} Question everything you thought you knew about " \o mainTopic \o ". Fresh perspectives that challenge conventional wisdom. #" \o mainTopic \o " #Perspectives"
    >>,
      product |-> <<
        "{287}{376}{8224}{8226} Introducing our revolutionary " \o mainTopic \o " solution! Experience the future of technology with cutting-edge features and unmatched performance. #" \o mainTopic \o " #Innovation",
        "{226}{353}{161} Transform your workflow with our advanced " \o mainTopic \o " platform! Designed for professionals who demand excellence. #" \o mainTopic \o " #Productivity",
        "{287}{376}{8240} Game-changing " \o mainTopic \o " technology is here! Upgrade your experience with premium features and intuitive design. #" \o mainTopic \o " #Technology",
        "{287}{376}{8221}{167} The " \o mainTopic \o " tool you've been waiting for is finally here! Powerful features, easy use, designed for " \o toStr(targetAudience) \o ". #" \o mainTopic \o " #Tools",
        "{226}{353}{8482}{239}{184} Streamline your " \o mainTopic \o " processes with intelligent automation. Built specifically for modern business needs. #" \o mainTopic \o " #Automation",
        "{287}{376}{8220}{352} Maximize your " \o mainTopic \o " ROI with our comprehensive suite. Everything you need in one integrated platform. #" \o mainTopic \o " #ROI",
        "{287}{376}{8217}{176} Save time and money with smart " \o mainTopic \o " solutions. Designed to deliver measurable results for " \o toStr(targetAudience) \o ". #" \o mainTopic \o " #Savings",
        "{287}{376}{175} Get more done with less effort using our intuitive " \o mainTopic \o " platform. Powerful features wrapped in a user-friendly interface. #" \o mainTopic \o " #Efficiency",
        "{287}{376}{8224} Why choose our " \o mainTopic \o " over the competition? Quality you can trust, backed by proven results. #" \o mainTopic \o " #Quality"
    >>,
      service |-> <<
        "{287}{376}{8250}{160}{239}{184} Professional " \o mainTopic \o " services that deliver results! Expert consultation, reliable delivery, and ongoing support. #" \o mainTopic \o " #Services",
        "{287}{376}{164} Trust our experienced team for all your " \o mainTopic \o " needs! Quality service, competitive pricing, guaranteed satisfaction. #" \o mainTopic \o " #Professional",
        "{287}{376}{8217}{188} Partner with industry leaders in " \o mainTopic \o " solutions! Comprehensive services and proven results for your business. #" \o mainTopic \o " #Partnership",
        "{287}{376}{175} Custom " \o mainTopic \o " solutions designed specifically for " \o toStr(targetAudience) \o ". Personalized approach, expert execution, measurable outcomes. #" \o mainTopic \o " #Custom",
        "{287}{376}{8221}{167} Full-service " \o mainTopic \o " support from strategy to implementation. Our dedicated team handles every aspect of your project. #" \o mainTopic \o " #FullService",
        "{287}{376}{8220}{8249} End-to-end " \o mainTopic \o " services that take you from concept to completion. Professional expertise at every step. #" \o mainTopic \o " #EndToEnd",
        "{287}{376}{8220}{710} Maximize your " \o mainTopic \o " investment with our proven methodologies. Results-driven approach for " \o toStr(targetAudience) \o ". #" \o mainTopic \o " #Investment",
        "{287}{376}{8220}{352} Optimize your " \o mainTopic \o " performance with data-driven insights. Expert analysis and actionable recommendations. #" \o mainTopic \o " #Optimization",
        "{287}{376}{353}{8364} Scale your " \o mainTopic \o " capabilities with our comprehensive support. From consultation to ongoing optimization. #" \o mainTopic \o " #Scaling"
    >>,
      video |-> <<
        "{287}{376}{165} New video alert! Master " \o mainTopic \o " with our comprehensive tutorial. Step-by-step guidance for " \o validAudience \o "! #" \o mainTopic \o " #Video",
        "{287}{376}{8220}{185} Just uploaded: The complete " \o mainTopic \o " video guide! Learn everything you need to know with clear visual examples. #" \o mainTopic \o " #Tutorial",
        "{287}{376}{172} Watch and learn: " \o mainTopic \o " strategies that actually work! Real examples and practical demonstrations. #" \o mainTopic \o " #Learning",
        "{287}{376}{8220}{353} Visual learning at its best! Our " \o mainTopic \o " video series breaks down complex concepts into easy-to-follow tutorials. #" \o mainTopic \o " #Education",
        "{287}{376}{8220} From beginner to expert: Master " \o mainTopic \o " through our comprehensive video course. Perfect for " \o validAudience \o "! #" \o mainTopic \o " #Course",
        "{287}{376}{8217}{161} Transform your understanding of " \o mainTopic \o " with our video library. Expert instruction with visual examples. #" \o mainTopic \o " #Expertise",
        "{287}{376}{8221}{165} Must-watch: The truth about " \o mainTopic \o " revealed in our latest video! Real insights you won't find anywhere else. #" \o mainTopic \o " #Insights",
        "{226}{339}{168} Video tutorial: " \o mainTopic \o " secrets that will change how you approach everything! Don't miss this one. #" \o mainTopic \o " #Secrets",
        "{287}{376}{353}{8364} Level up your " \o mainTopic \o " skills with our video masterclass! Professional techniques made simple. #" \o mainTopic \o " #Masterclass"
    >>,
      email |-> <<
        "{287}{376}{8220}{167} Email marketing mastery: " \o mainTopic \o " strategies that drive engagement and conversions! Essential for " \o validAudience \o ". #" \o mainTopic \o " #EmailMarketing",
        "{287}{376}{8220}{168} Discover email " \o mainTopic \o " best practices that actually work! From subject lines to content optimization. #" \o mainTopic \o " #Email",
        "{287}{376}{8220}{172} Transform your email campaigns with " \o mainTopic \o " techniques! Expert guidance for better performance. #" \o mainTopic \o " #Campaigns",
        "{287}{376}{8220}{352} Boost your email " \o mainTopic \o " performance! Learn techniques that increase open rates and click-through rates. #" \o mainTopic \o " #EmailROI",
        "{226}{353}{161} Master email automation " \o mainTopic \o " workflows! Streamline your email marketing for better results. #" \o mainTopic \o " #Automation",
        "{287}{376}{175} Optimize your email " \o mainTopic \o " for maximum ROI! Data-driven strategies for modern email marketing. #" \o mainTopic \o " #Optimization",
        "{287}{376}{8220}{710} Email engagement secrets: " \o mainTopic \o " strategies that get your emails opened and clicked! #" \o mainTopic \o " #Engagement",
        "{287}{376}{8217}{338} Email subject line mastery: " \o mainTopic \o " techniques that boost open rates! #" \o mainTopic \o " #SubjectLines",
        "{287}{376}{8220}{8249} Email content optimization: " \o mainTopic \o " best practices for higher conversions! #" \o mainTopic \o " #Content"
    >>,
      social |-> <<
        "{287}{376}{8220}{177} Social media mastery: " \o mainTopic \o " strategies that drive engagement and growth! Essential for " \o validAudience \o ". #" \o mainTopic \o " #SocialMedia",
        "{287}{376}{8220}{178} Discover social media " \o mainTopic \o " best practices that actually work! From content creation to audience engagement. #" \o mainTopic \o " #Social",
        "{287}{376}{8220}{184} Transform your social media presence with " \o mainTopic \o " techniques! Proven strategies for growth. #" \o mainTopic \o " #Growth",
        "{287}{376}{8220}{183} Instagram " \o mainTopic \o " strategies that get results! Platform-specific techniques for better engagement. #" \o mainTopic \o " #Instagram",
        "{287}{376}{8220}{732} Facebook " \o mainTopic \o " guide: Best practices for maximum reach and engagement! #" \o mainTopic \o " #Facebook",
        "{287}{376}{8217}{188} LinkedIn " \o mainTopic \o " strategies for professional networking! Tailored approaches for business growth. #" \o mainTopic \o " #LinkedIn",
        "{287}{376}{8221}{165} Boost your social media engagement with " \o mainTopic \o "! Proven techniques that get your content shared. #" \o mainTopic \o " #Engagement",
        "{287}{376}{8220}{710} Social media growth: " \o mainTopic \o " strategies that expand your reach! #" \o mainTopic \o " #Growth",
        "{287}{376}{175} Social media ROI: " \o mainTopic \o " techniques that convert followers into customers! #" \o mainTopic \o " #ROI"
    >>,
      landing |-> <<
        "{287}{376}{175} Landing page mastery: " \o mainTopic \o " optimization techniques that convert visitors into customers! #" \o mainTopic \o " #LandingPage",
        "{287}{376}{8220}{8222} Discover landing page " \o mainTopic \o " best practices that drive conversions! From design to copy optimization. #" \o mainTopic \o " #Landing",
        "{287}{376}{353}{8364} Transform your landing page performance with " \o mainTopic \o " strategies! Expert guidance for better conversions. #" \o mainTopic \o " #Performance",
        "{287}{376}{8217}{176} Boost your conversion rates with " \o mainTopic \o " landing page techniques! Practical strategies for " \o validAudience \o ". #" \o mainTopic \o " #Conversions",
        "{287}{376}{8220}{352} Landing page ROI: " \o mainTopic \o " optimization strategies for maximum returns! #" \o mainTopic \o " #ROI",
        "{287}{376}{168} Landing page design: " \o mainTopic \o " principles that improve user experience and conversions! #" \o mainTopic \o " #Design",
        "{226}{353}{161} Landing page performance: " \o mainTopic \o " optimization techniques that work! #" \o mainTopic \o " #Performance",
        "{287}{376}{8220}{710} Landing page success: " \o mainTopic \o " case studies and proven strategies! #" \o mainTopic \o " #Success",
        "{287}{376}{175} High-converting landing pages: " \o mainTopic \o " strategies that get results! #" \o mainTopic \o " #Results"
    >>,
      charitable |-> <<
        "{287}{376}{8217} New insights on " \o mainTopic \o "! Discover the impact of charitable giving and how it's changing lives. #" \o mainTopic \o " #CharitableGiving",
        "{287}{376}{8220}{352} Just published: The latest statistics on " \o mainTopic \o " and its impact on communities. Essential reading! #" \o mainTopic \o " #Impact",
        "{287}{376}{175} Understanding " \o mainTopic \o ": How charitable giving is making a difference in 2024. #" \o mainTopic \o " #Philanthropy",
        "{287}{376}{338}{376} The power of " \o mainTopic \o ": Real stories of how charitable giving transforms communities. #" \o mainTopic \o " #Stories",
        "{287}{376}{8220}{710} Discover the trends in " \o mainTopic \o " and how they're shaping the future of philanthropy. #" \o mainTopic \o " #Trends",
        "{287}{376}{8217}{161} Learn about the significance of " \o mainTopic \o " in today's society. Expert analysis and insights. #" \o mainTopic \o " #Insights",
        "{287}{376}{8220}{353} Everything you need to know about " \o mainTopic \o ": A comprehensive guide to charitable giving. #" \o mainTopic \o " #Guide",
        "{287}{376}{8220} Master the fundamentals of " \o mainTopic \o " with our detailed analysis. From basics to advanced insights. #" \o mainTopic \o " #Education",
        "{287}{376}{8221} Explore the world of " \o mainTopic \o " and understand its role in modern philanthropy. #" \o mainTopic \o " #Philanthropy"
    >>,
      financial |-> <<
        "{287}{376}{8217}{176} New analysis: The financial impact of " \o mainTopic \o " on the economy. Expert insights for investors. #" \o mainTopic \o " #Finance",
        "{287}{376}{8220}{352} Just released: Economic analysis of " \o mainTopic \o " and its market implications. #" \o mainTopic \o " #Economics",
        "{287}{376}{175} Understanding the financial landscape of " \o mainTopic \o ": Market trends and opportunities. #" \o mainTopic \o " #Markets",
        "{287}{376}{8220}{710} Discover the market dynamics of " \o mainTopic \o " and investment opportunities. #" \o mainTopic \o " #Investment",
        "{287}{376}{8217}{188} Financial insights on " \o mainTopic \o ": How it affects markets and economic growth. #" \o mainTopic \o " #Growth",
        "{287}{376}{8220}{8249} Expert analysis of " \o mainTopic \o " from a financial perspective. Market trends and forecasts. #" \o mainTopic \o " #Analysis"
    >> ]

socialToneRules ==
    [ professional |-> <<
        [pattern |-> <<"{287}{376}{8221}{165}", "{287}{376}{353}{8364}", "{226}{339}{168}", "{287}{376}{8240}">>, ignoreCase |-> FALSE, replacement |-> "{287}{376}{8220}{352}"],
        [pattern |-> <<"Hot off the press">>, ignoreCase |-> FALSE, replacement |-> "New publication"],
        [pattern |-> <<"Just dropped">>, ignoreCase |-> FALSE, replacement |-> "Recently published"],
        [pattern |-> <<"Game-changing">>, ignoreCase |-> FALSE, replacement |-> "Innovative"],
        [pattern |-> <<"revolutionary">>, ignoreCase |-> FALSE, replacement |-> "advanced"],
        [pattern |-> <<"secrets">>, ignoreCase |-> FALSE, replacement |-> "insights"],
        [pattern |-> <<"ultimate guide">>, ignoreCase |-> FALSE, replacement |-> "comprehensive guide"],
        [pattern |-> <<"Don't miss this!">>, ignoreCase |-> FALSE, replacement |-> "Essential reading."],
        [pattern |-> <<"Check it out!">>, ignoreCase |-> FALSE, replacement |-> "Learn more."],
        [pattern |-> <<"Struggling">>, ignoreCase |-> FALSE, replacement |-> "Facing challenges with"],
        [pattern |-> <<"Ready to excel">>, ignoreCase |-> FALSE, replacement |-> "Excel in"],
        [pattern |-> <<"Boost your">>, ignoreCase |-> FALSE, replacement |-> "Enhance your"]
    >>,
      casual |-> <<
        [pattern |-> <<"{287}{376}{8220}{352}">>, ignoreCase |-> FALSE, replacement |-> "{287}{376}{8221}{165}"],
        [pattern |-> <<"Professional">>, ignoreCase |-> TRUE, replacement |-> "Awesome"],
        [pattern |-> <<"Expert">>, ignoreCase |-> TRUE, replacement |-> "Pro"],
        [pattern |-> <<"comprehensive">>, ignoreCase |-> TRUE, replacement |-> "complete"],
        [pattern |-> <<"strategies">>, ignoreCase |-> TRUE, replacement |-> "tips"],
        [pattern |-> <<"insights">>, ignoreCase |-> TRUE, replacement |-> "secrets"],
        [pattern |-> <<"New publication">>, ignoreCase |-> FALSE, replacement |-> "Hot off the press"],
        [pattern |-> <<"Recently published">>, ignoreCase |-> FALSE, replacement |-> "Just dropped"],
        [pattern |-> <<"Innovative">>, ignoreCase |-> FALSE, replacement |-> "Game-changing"],
        [pattern |-> <<"advanced">>, ignoreCase |-> FALSE, replacement |-> "revolutionary"],
        [pattern |-> <<"Facing challenges with">>, ignoreCase |-> FALSE, replacement |-> "Struggling with"],
        [pattern |-> <<"Excel in">>, ignoreCase |-> FALSE, replacement |-> "Get good at"],
        [pattern |-> <<"Enhance your">>, ignoreCase |-> FALSE, replacement |-> "Boost your"]
    >>,
      friendly |-> <<
        [pattern |-> <<"Professional">>, ignoreCase |-> TRUE, replacement |-> "Friendly"],
        [pattern |-> <<"Expert">>, ignoreCase |-> TRUE, replacement |-> "Helpful"],
        [pattern |-> <<"secrets">>, ignoreCase |-> TRUE, replacement |-> "tips"],
        [pattern |-> <<"revolutionary">>, ignoreCase |-> TRUE, replacement |-> "amazing"],
        [pattern |-> <<"Game-changing">>, ignoreCase |-> TRUE, replacement |-> "Helpful"],
        [pattern |-> <<"Struggling">>, ignoreCase |-> FALSE, replacement |-> "Having trouble with"],
        [pattern |-> <<"Ready to excel">>, ignoreCase |-> FALSE, replacement |-> "Ready to learn"],
        [pattern |-> <<"Boost your">>, ignoreCase |-> FALSE, replacement |-> "Improve your"],
        [pattern |-> <<"Transform your">>, ignoreCase |-> FALSE, replacement |-> "Improve your"]
    >>,
      authoritative |-> <<
        [pattern |-> <<"tips">>, ignoreCase |-> TRUE, replacement |-> "proven strategies"],
        [pattern |-> <<"helpful">>, ignoreCase |-> TRUE, replacement |-> "expert"],
        [pattern |-> <<"secrets">>, ignoreCase |-> TRUE, replacement |-> "critical insights"],
        [pattern |-> <<"amazing">>, ignoreCase |-> TRUE, replacement |-> "exceptional"],
        [pattern |-> <<"awesome">>, ignoreCase |-> TRUE, replacement |-> "professional"],
        [pattern |-> <<"Having trouble with">>, ignoreCase |-> FALSE, replacement |-> "Facing challenges with"],
        [pattern |-> <<"Ready to learn">>, ignoreCase |-> FALSE, replacement |-> "Ready to master"],
        [pattern |-> <<"Improve your">>, ignoreCase |-> FALSE, replacement |-> "Optimize your"],
        [pattern |-> <<"Get good at">>, ignoreCase |-> FALSE, replacement |-> "Master"]
    >> ]

(***************************************************************************)
(* Template selection, shuffle and tone transformation                     *)
(***************************************************************************)
\* targetAudience && targetAudience.trim() ? targetAudience.trim() : 'professionals'
validAudienceOf(targetAudience) ==
    IF truthy(targetAudience) /\ trim(targetAudience.val) # "" THEN trim(targetAudience.val) ELSE "professionals"

\* allTemplates[key] is defined: key names a bucket of the table
hasBucket(allTemplates, key) == toStr(key) \in DOMAIN allTemplates

\* the fallback chain with the requested type tried first
resolveBucketRequestedFirst(allTemplates, detectedType, contentType) ==
    IF hasBucket(allTemplates, contentType) THEN toStr(contentType)
    ELSE IF hasBucket(allTemplates, detectedType) THEN toStr(detectedType)
    ELSE "article"

\* the key of allTemplates[detectedType] || allTemplates[contentType] || allTemplates['article']
resolveBucket(allTemplates, detectedType, contentType) ==
    IF hasBucket(allTemplates, detectedType) THEN toStr(detectedType)
    ELSE IF hasBucket(allTemplates, contentType) THEN toStr(contentType)
    ELSE "article"

\* a draw that may take the same template for every position
ShufflesRepeating(n) == { [i \in 1..n |-> r] : r \in 1..n }

\* Outcomes of templates.sort(() => 0.5 - Math.random()) on n templates: the
\* result is a permutation of the bucket that depends on the random draws.
\* The model draws it from the rotations of the bucket, read in either
\* direction, so every template can land on every position.
Shuffles(n) ==
    { [i \in 1..n |-> ((r + i - 1) % n) + 1] : r \in 0..(n - 1) } \cup
    { [i \in 1..n |-> ((r + n - i) % n) + 1] : r \in 0..(n - 1) }

\* a slice that stops one template early
selectionOneShort(perm, k) == SubSeq(perm, 1, k - 1)

\* templates.sort(...).slice(0, k), as the indices of the chosen templates
selection(perm, k) == SubSeq(perm, 1, IF k > Len(perm) THEN Len(perm) ELSE k)

\* An array given by its elements, evaluated once.  Below, a local constant
\* of the code (const x = e) is a variable bound over the one-element set
\* {e}, which evaluates e once, and the results are collected with UNION.
Array(f) == SubSeq(f, 1, Len(f))

\* arr.map(fn)
Map(arr, fn(_)) == Array([j \in 1..Len(arr) |-> fn(arr[j])])

\* a switch whose other tones share the professional case
toneRulesProfessionalByDefault(rulesByTone, tone) ==
    IF tone.defined /\ tone.val \in DOMAIN rulesByTone THEN rulesByTone[tone.val] ELSE rulesByTone.professional

\* switch (tone): the chain of the matching case, none for any other tone
toneRules(rulesByTone, tone) == IF tone.defined /\ tone.val \in DOMAIN rulesByTone THEN rulesByTone[tone.val] ELSE <<>>

\* The results the shuffle can give for one bucket.  bucket holds the
\* interpolated templates allTemplates[key] and transformed the same templates
\* after the tone switch (and, for social copy, formatHashtags): mapping the
\* transformation over the k chosen templates, as the code does, picks the
\* chosen entries of transformed.  A result records what detectContentType
\* returned, the bucket used, the indices of the chosen templates, these
\* templates as interpolated, and the strings returned.
shuffledResults(op, detectedType, key, bucket, transformed, k) ==
    { LET picks == selection(perm, k)
      IN  [op |-> op, detected |-> detectedType, bucket |-> key, picks |-> picks,
           interpolated |-> [i \in 1..Len(picks) |-> bucket[picks[i]]],
           strings |-> [i \in 1..Len(picks) |-> transformed[picks[i]]]]
      : perm \in Shuffles(Len(bucket)) }

\* the part of generateTitles after the table is built: bucket resolution,
\* shuffle, slice(0, 5) and the tone switch
titlesFrom(allTemplates, detectedType, contentType, tone) ==
    UNION { shuffledResults("generateTitles", detectedType, key, allTemplates[key], transformed, 5) :
            key \in {resolveBucket(allTemplates, detectedType, contentType)},
            transformed \in {Map(allTemplates[resolveBucket(allTemplates, detectedType, contentType)],
                                 LAMBDA title : applyRules(title, toneRules(titleToneRules, tone)))} }

\* ensureCompleteWord(topics[i]) || fallback
topicAt(topics, i, fallback) ==
    IF ensureCompleteWord(topics[i]) = "" THEN fallback ELSE ensureCompleteWord(topics[i])

generateTitles(content, contentType, targetAudience, tone) ==
    UNION { titlesFrom(allTemplates, detectContentType(content, contentType), contentType, tone) :
            allTemplates \in { titleTemplates(topicAt(topics, 1, "content"), topicAt(topics, 2, "strategies"), targetAudience) :
                               topics \in {extractKeyTopics(content, 3)} } }

descriptionsFrom(allTemplates, detectedType, contentType, tone) ==
    UNION { shuffledResults("generateDescriptions", detectedType, key, allTemplates[key], transformed, 3) :
            key \in {resolveBucket(allTemplates, detectedType, contentType)},
            transformed \in {Map(allTemplates[resolveBucket(allTemplates, detectedType, contentType)],
                                 LAMBDA desc : applyRules(desc, toneRules(descriptionToneRules, tone)))} }

generateDescriptions(content, contentType, targetAudience, tone) ==
    UNION { descriptionsFrom(allTemplates, detectContentType(content, contentType), contentType, tone) :
            allTemplates \in { descriptionTemplates(topicAt(topics, 1, "content"), topicAt(topics, 2, "information"),
                                                    targetAudience,
                                                    validAudienceOf(targetAudience)) :
                               topics \in {extractKeyTopics(content, 2)} } }

socialCopyFrom(allTemplates, detectedType, contentType, tone) ==
    UNION { shuffledResults("generateSocialCopy", detectedType, key, allTemplates[key], transformed, 3) :
            key \in {resolveBucket(allTemplates, detectedType, contentType)},
            transformed \in {Map(allTemplates[resolveBucket(allTemplates, detectedType, contentType)],
                                 LAMBDA social : formatHashtags(applyRules(social, toneRules(socialToneRules, tone))))} }

generateSocialCopy(content, contentType, targetAudience, tone) ==
    UNION { socialCopyFrom(allTemplates, detectContentType(content, contentType), contentType, tone) :
            allTemplates \in { socialTemplates(topicAt(topics, 1, "content"), targetAudience,
                                               validAudienceOf(targetAudience)) :
                               topics \in {extractKeyTopics(content, 2)} } }
(***************************************************************************)
(* Compliance check (app.post('/api/compliance/check')).  The word lists   *)
(* of data/prohibited-words.json are not part of the sources at hand; the  *)
(* lists below stand for them.                                             *)
(***************************************************************************)
prohibitedWordsJson ==
    [ red_words         |-> <<"Guarantee", "art", "risk-free">>,
      yellow_words      |-> <<"best", "Top Performing">>,
      us_specific_terms |-> <<"401k", "IRA">> ]

\* list.filter(word => content.toLowerCase().includes(word.toLowerCase())),
\* matching on the text as given, not lower-cased
wordsFoundCaseSensitive(list, content) ==
    SelectSeq(list, LAMBDA word : includes(content, toLowerCase(word)))

\* list.filter(word => content.toLowerCase().includes(word.toLowerCase()))
wordsFound(list, content) ==
    SelectSeq(list, LAMBDA word : includes(toLowerCase(content), toLowerCase(word)))

\* found.join(', ')
RECURSIVE joinComma(_)
joinComma(found) ==
    IF Len(found) = 0 THEN ""
    ELSE IF Len(found) = 1 THEN found[1]
    ELSE found[1] \o ", " \o joinComma(Tail(found))

\* if (found.length > 0) warnings.push(`${label} found: ${found.join(', ')}`)
pushWarning(warnings, label, found) ==
    IF Len(found) > 0 THEN Append(warnings, label \o " found: " \o joinComma(found)) ELSE warnings

\* the handler with the yellow words looked at before the red words
complianceWarningsYellowFirst(lists, content) ==
    pushWarning(
        pushWarning(
            pushWarning(<<>>, "Yellow words", wordsFound(lists.yellow_words, content)),
            "Red words", wordsFound(lists.red_words, content)),
        "US-specific terms", wordsFound(lists.us_specific_terms, content))

\* the warnings of the handler for the text content, lists being the loaded word lists
complianceWarnings(lists, content) ==
    pushWarning(
        pushWarning(
            pushWarning(<<>>, "Red words", wordsFound(lists.red_words, content)),
            "Yellow words", wordsFound(lists.yellow_words, content)),
        "US-specific terms", wordsFound(lists.us_specific_terms, content))


(***************************************************************************)
(* Inputs                                                                  *)
(***************************************************************************)
\* the vocabulary content texts are built from
Pieces == {"Finance ", "money ", "donations ", "markets ", "technology ", "that ", "art",
           "2024 ", "__proto__ ", "! ", " "}

RECURSIVE TextsOfLen(_)
TextsOfLen(n) == IF n = 0 THEN {""} ELSE { p \o t : p \in Pieces, t \in TextsOfLen(n - 1) }

\* every concatenation of at most MaxPieces pieces
Contents == UNION { TextsOfLen(n) : n \in 0..MaxPieces }

\* the texts given to detectContentType
DetectContents == UNION { TextsOfLen(n) : n \in 0..MaxDetectPieces }

\* topic counts a caller can request (slice treats a negative count as an offset from the end)
TopicCounts == (-1)..MaxTopicsArg

BucketTypes == {"article", "blog", "product", "service", "video", "email", "social", "landing",
                "charitable", "financial"}

\* content types of a request: the template buckets, a category that is only
\* detected, a type no table knows, and a request without the field
ContentTypes == { Str(t) : t \in BucketTypes \cup {"business", "podcast"} } \cup {undefined}

Audiences == {undefined, Str(""), Str("  "), Str("managers"), Str(" Expert buyers!! ")}

Tones == { Str(t) : t \in {"professional", "casual", "friendly", "authoritative", "playful"} } \cup {undefined}

\* content texts of the generation requests
GenContents == {"", "finance", "Finance for managers", "donations ", "money markets",
                "technology ", "therefor ", "Masterclass learning tips"}

(***************************************************************************)
(* Specifications.  Each operation is applied once to inputs drawn by the  *)
(* initial state; pc tells whether it has run.                             *)
(***************************************************************************)
noResult == [op |-> "none"]

\* the state an operation under study does not touch, and its initial value
background == <<prohibitedWords, isAvailable, initialized, env, initPc, callers, requests, client>>

Quiet ==
    /\ prohibitedWords = prohibitedWordsJson
    /\ isAvailable = FALSE
    /\ initialized = FALSE
    /\ env = [apiKey |-> FALSE, probe |-> "none"]
    /\ initPc = "checked"
    /\ callers = <<>>
    /\ requests = <<>>
    /\ client = <<>>

Request(content, maxTopics, contentType, targetAudience, tone) ==
    [content |-> content, maxTopics |-> maxTopics, contentType |-> contentType,
     targetAudience |-> targetAudience, tone |-> tone]

InitTopics ==
    /\ pc = "start"
    /\ req \in { Request(c, n, undefined, undefined, undefined) : c \in Contents, n \in TopicCounts }
    /\ result = noResult
    /\ Quiet

ExtractKeyTopicsCall ==
    /\ pc = "start"
    /\ pc' = "done"
    /\ result' = [op |-> "extractKeyTopics", topics |-> extractKeyTopics(req.content, req.maxTopics)]
    /\ UNCHANGED <<req, background>>

NextTopics == ExtractKeyTopicsCall

SpecTopics == InitTopics /\ [][NextTopics]_vars

InitDetect ==
    /\ pc = "start"
    /\ req \in { Request(c, 0, ct, undefined, undefined) : c \in DetectContents, ct \in ContentTypes }
    /\ result = noResult
    /\ Quiet

DetectContentTypeCall ==
    /\ pc = "start"
    /\ pc' = "done"
    /\ result' = [op |-> "detectContentType", type |-> detectContentType(req.content, req.contentType)]
    /\ UNCHANGED <<req, background>>

NextDetect == DetectContentTypeCall

SpecDetect == InitDetect /\ [][NextDetect]_vars

\* The generation requests: every content type with every tone, and every
\* content text with every audience.
GenRequests ==
    { Request("finance", 0, ct, a, t) : ct \in ContentTypes, a \in {Str("managers"), Str("")}, t \in Tones } \cup
    { Request(c, 0, ct, a, t) : c \in GenContents, ct \in {Str("service"), Str("business"), undefined},
                                a \in Audiences, t \in {Str("professional"), Str("casual")} }

InitGen ==
    /\ pc = "start"
    /\ req \in GenRequests
    /\ result = noResult
    /\ Quiet

GenerateTitlesCall ==
    /\ pc = "start"
    /\ pc' = "done"
    /\ result' \in generateTitles(req.content, req.contentType, req.targetAudience, req.tone)
    /\ UNCHANGED <<req, background>>

GenerateDescriptionsCall ==
    /\ pc = "start"
    /\ pc' = "done"
    /\ result' \in generateDescriptions(req.content, req.contentType, req.targetAudience, req.tone)
    /\ UNCHANGED <<req, background>>

GenerateSocialCopyCall ==
    /\ pc = "start"
    /\ pc' = "done"
    /\ result' \in generateSocialCopy(req.content, req.contentType, req.targetAudience, req.tone)
    /\ UNCHANGED <<req, background>>

NextGen == GenerateTitlesCall \/ GenerateDescriptionsCall \/ GenerateSocialCopyCall

SpecGen == InitGen /\ [][NextGen]_vars

\* Requests for the tone switch: every template bucket with every tone, for
\* an audience whose words the replacement rules rewrite.
ToneRequests ==
    { Request("finance", 0, Str(ct), Str("Comprehensive Guide readers"), t) : ct \in BucketTypes, t \in Tones }

InitTone ==
    /\ pc = "start"
    /\ req \in ToneRequests
    /\ result = noResult
    /\ Quiet

SpecTone == InitTone /\ [][NextGen]_vars


\* number of pieces concatenated into a text given to the compliance check
MaxCompliancePieces == 3

CompliancePieces == {"Guaranteed ", "cart ", "The BEST ", "my ira ", "Risk-Free ", "finance ", "401K, ", "top performing "}

RECURSIVE ComplianceTextsOfLen(_)
ComplianceTextsOfLen(n) ==
    IF n = 0 THEN {""} ELSE { p \o t : p \in CompliancePieces, t \in ComplianceTextsOfLen(n - 1) }

ComplianceContents == UNION { ComplianceTextsOfLen(n) : n \in 0..MaxCompliancePieces }

InitCompliance ==
    /\ pc = "start"
    /\ req \in { Request(c, 0, undefined, undefined, undefined) : c \in ComplianceContents }
    /\ result = noResult
    /\ Quiet

\* one request handled: res.json({ warnings })
ComplianceCheckCall ==
    /\ pc = "start"
    /\ pc' = "done"
    /\ result' = [op |-> "complianceCheck", warnings |-> complianceWarnings(prohibitedWords, req.content)]
    /\ UNCHANGED <<req, background>>

\* the same text sent a second time; the response to the first is kept in earlier
ComplianceCheckRepeat ==
    /\ pc = "done"
    /\ result.op = "complianceCheck"
    /\ pc' = "repeated"
    /\ result' = [op |-> "complianceCheck", warnings |-> complianceWarnings(prohibitedWords, req.content),
                  earlier |-> result.warnings]
    /\ UNCHANGED <<req, background>>

NextCompliance == ComplianceCheckCall \/ ComplianceCheckRepeat

SpecCompliance == InitCompliance /\ [][NextCompliance]_vars

(***************************************************************************)
(* GeminiService: the startup probe, and generateMetadata with its         *)
(* fallback to the templates.                                              *)
(***************************************************************************)
\* number of generateMetadata calls made to the service object
MaxCallers == 1

Callers == 1..MaxCallers

Parts == {"titles", "descriptions", "socialCopy"}

\* an array of lines, and null
Arr(lines) == [isNull |-> FALSE, lines |-> lines]

null == [isNull |-> TRUE, lines |-> <<>>]

\* value || []
orEmpty(value) == IF value.isNull THEN <<>> ELSE value.lines

\* text.split('\n')
RECURSIVE splitLines(_)
splitLines(s) ==
    LET n == IF includes(s, "\n")
             THEN (CHOOSE i \in 1..Len(s) : CharAt(s, i) = "\n" /\ ~includes(SubSeq(s, 1, i - 1), "\n"))
             ELSE 0
    IN  IF n = 0 THEN <<s>> ELSE <<SubSeq(s, 1, n - 1)>> \o splitLines(SubSeq(s, n + 1, Len(s)))

\* the lines kept as they stand in the text
parseLinesUntrimmed(text, k) ==
    LET lines == SelectSeq(splitLines(trim(text)), LAMBDA line : trim(line) # "")
        kept  == SubSeq(lines, 1, IF k > Len(lines) THEN Len(lines) ELSE k)
    IN  Arr(kept)

\* text.trim().split('\n').filter(line => line.trim()).slice(0, k).map(line => line.trim())
parseLines(text, k) ==
    LET lines == SelectSeq(splitLines(trim(text)), LAMBDA line : trim(line) # "")
        kept  == SubSeq(lines, 1, IF k > Len(lines) THEN Len(lines) ELSE k)
    IN  Arr([i \in 1..Len(kept) |-> trim(kept[i])])

parseTitles(text) == parseLines(text, 5)

parseDescriptions(text) == parseLines(text, 3)

parseSocialCopy(text) == parseLines(text, 3)

parse(part, text) ==
    IF part = "titles" THEN parseTitles(text)
    ELSE IF part = "descriptions" THEN parseDescriptions(text)
    ELSE parseSocialCopy(text)

\* the texts the model answers with: more lines than are kept, a blank line,
\* lines with white space around them, and a text of blank lines only
ModelTexts == {"\nOne\n\n  Two  \nThree\nFour \nFive\nSix\n", " \n\n "}

\* the value templateFallback returns (the fallback of test-gemini.js)
templateFallbackValue ==
    [titles |-> <<"Test Title">>, descriptions |-> <<"Test Description">>, socialCopy |-> <<"Test Social">>]

\* the same, computed once for each part and text
parsed == [part \in Parts |-> [text \in ModelTexts |-> parse(part, text)]]

noPromise == [state |-> "none", value |-> null]

pendingPromise == [state |-> "pending", value |-> null]

fulfilled(value) == [state |-> "fulfilled", value |-> value]

noReturn == [returned |-> FALSE]

idleCaller ==
    [pc |-> "idle",
     model |-> [part \in Parts |-> "none"],
     text |-> [part \in Parts |-> ""],
     promise |-> [part \in Parts |-> noPromise],
     fallbackCalls |-> 0,
     slept |-> FALSE,
     return |-> noReturn]

returnOf(value) == [returned |-> TRUE, value |-> value]

\* a loop that does not look at initialized
mustWaitNever(init) == FALSE

\* a loop that never sees the flag set
mustWaitForever(init) == TRUE

\* the condition of while (!this.initialized)
mustWait(init) == ~init

\* a test of availability that never takes the fallback
usesFallbackNever(available) == FALSE

\* the condition of if (!this.isAvailable)
usesFallback(available) == ~available

\* what generateTitles (and the like) resolves with when its model call, or
\* the reading of its response, fails: the catch returns null
settledOnFailure == fulfilled(null)

\* what generateMetadata returns once the three promises of Promise.all are
\* settled: the catch (templateFallback) if one is rejected, otherwise the
\* three values, null replaced by [].  generateTitles, generateDescriptions
\* and generateSocialCopy catch every failure of their model call, so none
\* of their promises is rejected.
settle(promise) ==
    IF \E part \in Parts : promise[part].state = "rejected"
    THEN [fallback |-> TRUE, value |-> templateFallbackValue]
    ELSE [fallback |-> FALSE,
          value |-> [titles       |-> orEmpty(promise["titles"].value),
                     descriptions |-> orEmpty(promise["descriptions"].value),
                     socialCopy   |-> orEmpty(promise["socialCopy"].value)]]

InitService ==
    /\ pc = "start"
    /\ req = Request("", 0, undefined, undefined, undefined)
    /\ result = noResult
    /\ prohibitedWords = prohibitedWordsJson
    /\ isAvailable = FALSE
    /\ initialized = FALSE
    /\ env \in { [apiKey |-> k, probe |-> IF k THEN "pending" ELSE "none"] : k \in BOOLEAN }
    /\ initPc = IF env.apiKey THEN "probing" ELSE "checked"
    /\ callers = [c \in Callers |-> idleCaller]
    /\ requests = <<>>
    /\ client = <<>>

others == <<pc, req, result, prohibitedWords, env, requests, client>>

beside == <<pc, req, result, prohibitedWords, requests, client>>

\* await model.generateContent("Hello") resolves: this.isAvailable = true
ProbeResolves ==
    /\ initPc = "probing"
    /\ env' = [env EXCEPT !.probe = "resolved"]
    /\ isAvailable' = TRUE
    /\ initPc' = "checked"
    /\ UNCHANGED <<initialized, callers, beside>>

\* a catch that leaves the service available
ProbeRejectsAvailable ==
    /\ initPc = "probing"
    /\ env' = [env EXCEPT !.probe = "rejected"]
    /\ isAvailable' = TRUE
    /\ initPc' = "checked"
    /\ UNCHANGED <<initialized, callers, beside>>

\* the probe rejects: the catch sets this.isAvailable = false
ProbeRejects ==
    /\ initPc = "probing"
    /\ env' = [env EXCEPT !.probe = "rejected"]
    /\ isAvailable' = FALSE
    /\ initPc' = "checked"
    /\ UNCHANGED <<initialized, callers, beside>>

\* init() resumes after await this.checkAvailability(): this.initialized = true
InitCompletes ==
    /\ initPc = "checked"
    /\ initialized' = TRUE
    /\ initPc' = "done"
    /\ UNCHANGED <<isAvailable, callers, others>>

serviceFields == <<isAvailable, initialized, initPc>>

\* generateMetadata is called
CallGenerateMetadata(c) ==
    /\ callers[c].pc = "idle"
    /\ callers' = [callers EXCEPT ![c].pc = "polling"]
    /\ UNCHANGED <<serviceFields, others>>

\* the loop finds the service not initialized and awaits the 100 ms timer
PollNotReady(c) ==
    /\ callers[c].pc = "polling"
    /\ mustWait(initialized)
    /\ callers' = [callers EXCEPT ![c].pc = "sleeping", ![c].slept = TRUE]
    /\ UNCHANGED <<serviceFields, others>>

\* the timer fires and the loop tests this.initialized again
TimerFires(c) ==
    /\ callers[c].pc = "sleeping"
    /\ callers' = [callers EXCEPT ![c].pc = "polling"]
    /\ UNCHANGED <<serviceFields, others>>

\* if (!this.isAvailable) return templateFallback()
UseFallback(c) ==
    /\ callers[c].pc = "polling"
    /\ ~mustWait(initialized)
    /\ usesFallback(isAvailable)
    /\ callers' = [callers EXCEPT ![c].pc = "done",
                                  ![c].fallbackCalls = @ + 1,
                                  ![c].return = returnOf(templateFallbackValue)]
    /\ UNCHANGED <<serviceFields, others>>

\* Promise.all([...]): the three model calls are issued
StartGeneration(c) ==
    /\ callers[c].pc = "polling"
    /\ ~mustWait(initialized)
    /\ ~usesFallback(isAvailable)
    /\ callers' = [callers EXCEPT ![c].pc = "generating",
                                  ![c].model = [part \in Parts |-> "pending"],
                                  ![c].promise = [part \in Parts |-> pendingPromise]]
    /\ UNCHANGED <<serviceFields, others>>

\* a model call resolves with a text, which is parsed
ModelResolves(c, part) ==
    /\ callers[c].pc = "generating"
    /\ callers[c].model[part] = "pending"
    /\ \E text \in ModelTexts :
          callers' = [callers EXCEPT ![c].model[part] = "resolved",
                                     ![c].text[part] = text,
                                     ![c].promise[part] = fulfilled(parsed[part][text])]
    /\ UNCHANGED <<serviceFields, others>>

\* a model call rejects, or reading its response throws
ModelRejects(c, part) ==
    /\ callers[c].pc = "generating"
    /\ callers[c].model[part] = "pending"
    /\ callers' = [callers EXCEPT ![c].model[part] = "rejected",
                                  ![c].promise[part] = settledOnFailure]
    /\ UNCHANGED <<serviceFields, others>>

\* Promise.all settles and generateMetadata returns
FinishGeneration(c) ==
    /\ callers[c].pc = "generating"
    /\ \A part \in Parts : callers[c].promise[part].state \in {"fulfilled", "rejected"}
    /\ LET outcome == settle(callers[c].promise)
       IN  callers' = [callers EXCEPT ![c].pc = "done",
                                      ![c].fallbackCalls = IF outcome.fallback THEN @ + 1 ELSE @,
                                      ![c].return = returnOf(outcome.value)]
    /\ UNCHANGED <<serviceFields, others>>

NextService ==
    \/ ProbeResolves
    \/ ProbeRejects
    \/ InitCompletes
    \/ \E c \in Callers :
          \/ CallGenerateMetadata(c)
          \/ PollNotReady(c)
          \/ TimerFires(c)
          \/ UseFallback(c)
          \/ StartGeneration(c)
          \/ FinishGeneration(c)
          \/ \E part \in Parts : ModelResolves(c, part) \/ ModelRejects(c, part)

SpecService == InitService /\ [][NextService]_vars

\* every model call, the probe included, resolves or rejects; every timer
\* fires; code that can run does run
SpecServiceLive ==
    /\ SpecService
    /\ WF_vars(ProbeResolves \/ ProbeRejects)
    /\ WF_vars(InitCompletes)
    /\ \A c \in Callers :
          /\ WF_vars(PollNotReady(c) \/ UseFallback(c) \/ StartGeneration(c))
          /\ WF_vars(TimerFires(c))
          /\ WF_vars(FinishGeneration(c))
          /\ \A part \in Parts : WF_vars(ModelResolves(c, part) \/ ModelRejects(c, part))

(***************************************************************************)
(* The two endpoints under concurrent requests.  A handler runs without    *)
(* interruption up to its next await; /api/generate awaits an 800 ms timer *)
(* between computing its result and sending it, and other handlers run     *)
(* during that wait.                                                       *)
(***************************************************************************)
\* number of requests in flight together
MaxRequests == 2

RequestIds == 1..MaxRequests

\* a posted body; hasContent tells whether it has a content field
Posted(request, hasContent) ==
    [content |-> request.content, maxTopics |-> request.maxTopics, contentType |-> request.contentType,
     targetAudience |-> request.targetAudience, tone |-> request.tone, hasContent |-> hasContent]

\* bodies posted to /api/generate
GenerateBodies ==
    { Posted(Request("finance", 0, Str("article"), Str("managers"), Str("friendly")), TRUE),
      Posted(Request("donations ", 0, Str("blog"), undefined, Str("casual")), TRUE) }

\* bodies posted to /api/compliance/check
ComplianceBodies ==
    { Posted(Request("Guaranteed The BEST ", 0, undefined, undefined, undefined), TRUE),
      Posted(Request("my ira ", 0, undefined, undefined, undefined), TRUE) }

\* bodies without a content field
MalformedBodies == { Posted(Request("", 0, Str("article"), Str("managers"), Str("friendly")), FALSE) }

noResponse == [sent |-> FALSE]

\* res.json(body)
json(body) == [sent |-> TRUE, status |-> 200, body |-> body]

\* content.toLowerCase() on a body without content throws a TypeError
throws(body) == ~body.hasContent

\* a catch that answers as if nothing had happened
caughtSilently(message) == [sent |-> TRUE, status |-> 200, body |-> [error |-> message]]

\* the catch of a handler: res.status(500).json({ error: message })
caught(message) == [sent |-> TRUE, status |-> 500, body |-> [error |-> message]]

\* a request that has reached its handler, which has not run yet
arrived(kind, body) ==
    [kind |-> kind, body |-> body, pc |-> "arrived", result |-> noResult, overlapped |-> FALSE,
     served |-> 0, response |-> noResponse]

\* The random draws followed in the concurrent runs: of the shuffles of a
\* bucket, the two that put its first template first (the bucket in order,
\* and the bucket read backwards from its first template).
drawn(results) == { r \in results : r.picks[1] = 1 }

\* the object built by the handler of /api/generate, for the draws followed
generateResults(body) ==
    { [titles       |-> t.strings,
       descriptions |-> d.strings,
       socialCopy   |-> s.strings,
       warnings     |-> <<>>] :
      t \in drawn(generateTitles(body.content, body.contentType, body.targetAudience, body.tone)),
      d \in drawn(generateDescriptions(body.content, body.contentType, body.targetAudience, body.tone)),
      s \in drawn(generateSocialCopy(body.content, body.contentType, body.targetAudience, body.tone)) }

\* the same, computed once for each body
resultsByBody == [body \in GenerateBodies |-> generateResults(body)]

\* a result kept where every invocation of the handler writes it
resultOfShared(reqs, r) ==
    reqs[CHOOSE q \in DOMAIN reqs :
            reqs[q].kind = "generate" /\ reqs[q].pc # "arrived" /\ ~throws(reqs[q].body)].result

\* const result: the object this invocation of the handler built
resultOf(reqs, r) == reqs[r].result

\* the requests whose handler is suspended at its await when another runs
waiting(reqs) == { q \in DOMAIN reqs : reqs[q].pc = "waiting" }

\* number of responses sent so far
responses(reqs) == Cardinality({ q \in DOMAIN reqs : reqs[q].response.sent })

\* reqs with the suspended handlers marked as having had another handler run
\* during their wait, and request r replaced by its new record
afterHandler(reqs, r, record) ==
    [q \in DOMAIN reqs |->
        IF q = r THEN record
        ELSE IF q \in waiting(reqs) THEN [reqs[q] EXCEPT !.overlapped = TRUE]
        ELSE reqs[q]]

InitConcurrent ==
    /\ pc = "start"
    /\ req = Request("", 0, undefined, undefined, undefined)
    /\ result = noResult
    /\ prohibitedWords = prohibitedWordsJson
    /\ isAvailable = FALSE
    /\ initialized = FALSE
    /\ env = [apiKey |-> FALSE, probe |-> "none"]
    /\ initPc = "checked"
    /\ callers = <<>>
    /\ client = <<>>
    /\ requests \in [RequestIds -> { arrived("generate", body) : body \in GenerateBodies \cup MalformedBodies } \cup
                                   { arrived("compliance", body) : body \in ComplianceBodies \cup MalformedBodies }]

untouched == <<pc, req, result, prohibitedWords, isAvailable, initialized, env, initPc, callers, client>>

\* the handler of /api/generate up to its await: the three generators run
\* and the result object is built
GenerateHandle(r) ==
    /\ requests[r].kind = "generate"
    /\ requests[r].pc = "arrived"
    /\ ~throws(requests[r].body)
    /\ \E built \in resultsByBody[requests[r].body] :
           requests' = afterHandler(requests, r,
                                    [requests[r] EXCEPT !.pc = "waiting", !.result = built,
                                                        !.served = responses(requests),
                                                        !.overlapped = waiting(requests) # {}])
    /\ UNCHANGED untouched

\* the generators throw: the catch of the handler answers, before any await
GenerateFails(r) ==
    /\ requests[r].kind = "generate"
    /\ requests[r].pc = "arrived"
    /\ throws(requests[r].body)
    /\ requests' = afterHandler(requests, r,
                                [requests[r] EXCEPT !.pc = "responded",
                                                    !.served = responses(requests),
                                                    !.overlapped = waiting(requests) # {},
                                                    !.response = caught("Failed to generate metadata")])
    /\ UNCHANGED untouched

\* the 800 ms timer fires: res.json(result)
GenerateRespond(r) ==
    /\ requests[r].kind = "generate"
    /\ requests[r].pc = "waiting"
    /\ requests' = [requests EXCEPT ![r].pc = "responded",
                                    ![r].response = json(resultOf(requests, r))]
    /\ UNCHANGED untouched

\* the handler of /api/compliance/check, which has no await before res.json
ComplianceHandle(r) ==
    /\ requests[r].kind = "compliance"
    /\ requests[r].pc = "arrived"
    /\ ~throws(requests[r].body)
    /\ requests' = afterHandler(requests, r,
                                [requests[r] EXCEPT
                                    !.pc = "responded",
                                    !.served = responses(requests),
                                    !.overlapped = waiting(requests) # {},
                                    !.response = json([warnings |-> complianceWarnings(prohibitedWords,
                                                                                      requests[r].body.content)])])
    /\ UNCHANGED untouched

\* the first filter callback throws: the catch of the handler answers
ComplianceFails(r) ==
    /\ requests[r].kind = "compliance"
    /\ requests[r].pc = "arrived"
    /\ throws(requests[r].body)
    /\ requests' = afterHandler(requests, r,
                                [requests[r] EXCEPT !.pc = "responded",
                                                    !.served = responses(requests),
                                                    !.overlapped = waiting(requests) # {},
                                                    !.response = caught("Failed to check compliance")])
    /\ UNCHANGED untouched

NextConcurrent ==
    \E r \in RequestIds :
        \/ GenerateHandle(r)
        \/ GenerateFails(r)
        \/ GenerateRespond(r)
        \/ ComplianceHandle(r)
        \/ ComplianceFails(r)

SpecConcurrent == InitConcurrent /\ [][NextConcurrent]_vars
(***************************************************************************)
(* formatHashtags on its own, applied to a text and then to its own output *)
(***************************************************************************)
\* number of pieces a text given to formatHashtags is made of
MaxHashtagPieces == 4

HashtagPieces == {"#", "plan", "P", "_b", " ", "9"}

RECURSIVE HashtagTextsOfLen(_)
HashtagTextsOfLen(n) ==
    IF n = 0 THEN {""} ELSE { p \o t : p \in HashtagPieces, t \in HashtagTextsOfLen(n - 1) }

HashtagTexts == UNION { HashtagTextsOfLen(n) : n \in 0..MaxHashtagPieces }

InitHashtags ==
    /\ pc = "start"
    /\ req \in { Request(text, 0, undefined, undefined, undefined) : text \in HashtagTexts }
    /\ result = noResult
    /\ Quiet

FormatHashtagsCall ==
    /\ pc = "start"
    /\ pc' = "done"
    /\ result' = [op |-> "formatHashtags", text |-> formatHashtags(req.content)]
    /\ UNCHANGED <<req, background>>

\* formatHashtags applied to what it returned
FormatHashtagsAgain ==
    /\ pc = "done"
    /\ result.op = "formatHashtags"
    /\ pc' = "repeated"
    /\ result' = [op |-> "formatHashtags", text |-> formatHashtags(result.text), earlier |-> result.text]
    /\ UNCHANGED <<req, background>>

NextHashtags == FormatHashtagsCall \/ FormatHashtagsAgain

SpecHashtags == InitHashtags /\ [][NextHashtags]_vars

(***************************************************************************)
(* The front end: the submit handler of the form, its two requests and the *)
(* generate button.                                                        *)
(***************************************************************************)
\* number of submissions of the form
MaxSubmissions == 2

\* the values of the form fields
FormData ==
    { Posted(Request("Guaranteed The BEST finance ", 0, Str("article"), Str("managers"), Str("friendly")), TRUE),
      Posted(Request("donations ", 0, Str("blog"), Str(""), Str("casual")), TRUE) }

\* bodies of an OK response of /api/generate to the form: those of the
\* handler, and one of them from a server that sends a warning of its own
GenerateResponses(form) ==
    generateResults(form) \cup
    { [body EXCEPT !.warnings = <<"Review before publishing">>] :
      body \in {CHOOSE b \in generateResults(form) : TRUE} }

generateResponsesByForm == [form \in FormData |-> GenerateResponses(form)]

\* body of an OK response of /api/compliance/check to the form
ComplianceResponse(form) == [warnings |-> complianceWarnings(prohibitedWordsJson, form.content)]

noData == [present |-> FALSE]

\* a value the client holds
dataOf(body) == [present |-> TRUE, body |-> body]

\* the compliance warnings put first
mergeComplianceFirst(data, complianceData) ==
    [data EXCEPT !.warnings = complianceData.warnings \o data.warnings]

\* data.warnings = [...(data.warnings || []), ...complianceData.warnings]
merge(data, complianceData) ==
    [data EXCEPT !.warnings = data.warnings \o complianceData.warnings]

\* a button that stays disabled
setLoadingStateStuck(isLoading) == TRUE

\* setLoadingState: generateBtn.disabled = isLoading
setLoadingState(isLoading) == isLoading

idleClient ==
    [pc |-> "idle", disabled |-> FALSE, submissions |-> 0, formData |-> noData, fetched |-> "none",
     generated |-> noData,
     compliance |-> "none", returned |-> noData, displayed |-> noData, alerts |-> 0]

InitClient ==
    /\ pc = "start"
    /\ req = Request("", 0, undefined, undefined, undefined)
    /\ result = noResult
    /\ prohibitedWords = prohibitedWordsJson
    /\ isAvailable = FALSE
    /\ initialized = FALSE
    /\ env = [apiKey |-> FALSE, probe |-> "none"]
    /\ initPc = "checked"
    /\ callers = <<>>
    /\ requests = <<>>
    /\ client = idleClient

server == <<pc, req, result, prohibitedWords, isAvailable, initialized, env, initPc, callers, requests>>

\* the form is submitted: the button is disabled and /api/generate is fetched
Submit(form) ==
    /\ client.pc = "idle"
    /\ ~client.disabled
    /\ client.submissions < MaxSubmissions
    /\ client' = [client EXCEPT !.pc = "fetchingGenerate",
                                !.disabled = setLoadingState(TRUE),
                                !.submissions = @ + 1,
                                !.formData = dataOf(form),
                                !.fetched = "none",
                                !.generated = noData,
                                !.compliance = "none",
                                !.returned = noData]
    /\ UNCHANGED server

\* the response of /api/generate is OK: its body is read and
\* /api/compliance/check is fetched
GenerateFetchOk ==
    /\ client.pc = "fetchingGenerate"
    /\ \E body \in generateResponsesByForm[client.formData.body] :
          client' = [client EXCEPT !.pc = "fetchingCompliance", !.fetched = "ok", !.generated = dataOf(body)]
    /\ UNCHANGED server

\* the response is not OK: generateMetadata throws an Error, which goes
\* through its catch to the catch of the submit handler, which opens the alert
GenerateFetchNotOk ==
    /\ client.pc = "fetchingGenerate"
    /\ client' = [client EXCEPT !.pc = "alerting", !.fetched = "notOk", !.alerts = @ + 1]
    /\ UNCHANGED server

\* fetch or response.json() throws: the same way to the alert
GenerateFetchThrows ==
    /\ client.pc = "fetchingGenerate"
    /\ client' = [client EXCEPT !.pc = "alerting", !.fetched = "threw", !.alerts = @ + 1]
    /\ UNCHANGED server

\* the compliance response is OK: the warnings are merged, the result is
\* returned and displayed, and the finally block enables the button
ComplianceFetchOk ==
    /\ client.pc = "fetchingCompliance"
    /\ LET data == merge(client.generated.body, ComplianceResponse(client.formData.body))
       IN  client' = [client EXCEPT !.pc = "idle",
                                    !.compliance = "ok",
                                    !.returned = dataOf(data),
                                    !.displayed = dataOf(data),
                                    !.disabled = setLoadingState(FALSE)]
    /\ UNCHANGED server

\* the compliance response is not OK: the generate data is returned as it is
ComplianceFetchNotOk ==
    /\ client.pc = "fetchingCompliance"
    /\ client' = [client EXCEPT !.pc = "idle",
                                !.compliance = "notOk",
                                !.returned = dataOf(client.generated.body),
                                !.displayed = dataOf(client.generated.body),
                                !.disabled = setLoadingState(FALSE)]
    /\ UNCHANGED server

\* the compliance fetch or complianceResponse.json() throws: the alert
ComplianceFetchThrows ==
    /\ client.pc = "fetchingCompliance"
    /\ client' = [client EXCEPT !.pc = "alerting", !.compliance = "threw", !.alerts = @ + 1]
    /\ UNCHANGED server

\* the alert is closed: the finally block enables the button
AlertClosed ==
    /\ client.pc = "alerting"
    /\ client' = [client EXCEPT !.pc = "idle", !.disabled = setLoadingState(FALSE)]
    /\ UNCHANGED server

NextClient ==
    \/ \E form \in FormData : Submit(form)
    \/ GenerateFetchOk
    \/ GenerateFetchNotOk
    \/ GenerateFetchThrows
    \/ ComplianceFetchOk
    \/ ComplianceFetchNotOk
    \/ ComplianceFetchThrows
    \/ AlertClosed

SpecClient == InitClient /\ [][NextClient]_vars

\* every pending fetch settles and an open alert is closed
SpecClientLive ==
    /\ SpecClient
    /\ WF_vars(GenerateFetchOk \/ GenerateFetchNotOk \/ GenerateFetchThrows)
    /\ WF_vars(ComplianceFetchOk \/ ComplianceFetchNotOk \/ ComplianceFetchThrows)
    /\ WF_vars(AlertClosed)

Init == InitGen

Next == NextGen

Spec == SpecGen

(***************************************************************************)
(* Properties                                                              *)
(***************************************************************************)
defaultTopics == <<"content", "information", "strategies">>

calledTopics == pc = "done" /\ result.op = "extractKeyTopics"

calledDetect == pc = "done" /\ result.op = "detectContentType"

\* C1: whatever the text and the requested count, extractKeyTopics returns at
\* least 3 entries, none a stop-word and none of length 3 or less.
C1_TopicsAtLeastThree ==
    calledTopics =>
        /\ Len(result.topics) >= 3
        /\ \A i \in 1..Len(result.topics) :
              result.topics[i] \notin commonWords /\ Len(result.topics[i]) > 3

\* two stop-words and one surviving token: the survivor is returned, padded
\* to three entries
C1_Witness ==
    /\ calledTopics
    /\ req.content = "that markets money "
    /\ req.maxTopics = 1
    /\ result.topics = <<"money", "strategies", "success">>

\* C2: a text that is empty, only white space or shorter than 4 characters
\* gives exactly the default filler sequence.
C2_ShortTextGivesDefaults ==
    (calledTopics /\ (Len(req.content) < 4 \/ trim(req.content) = "")) =>
        result.topics = defaultTopics

\* the 3-character text "art", three topics requested
C2_Witness ==
    /\ calledTopics
    /\ req.content = "art"
    /\ req.maxTopics = 3
    /\ result.topics = defaultTopics

\* for each category, in the order of the keyword table, the number of its
\* keywords that occur in the lower-cased text
keywordHits(content) ==
    Only({ Array([i \in 1..Len(keywordTypes) |->
                    Cardinality({ k \in 1..Len(keywords[keywordTypes[i]]) :
                                    includes(lowerContent, keywords[keywordTypes[i]][k]) })]) :
           lowerContent \in {toLowerCase(content)} })

maxHits(hits) == Max({ hits[i] : i \in 1..Len(hits) })

\* the positions of the categories with the highest score
bestTypes(hits) == { i \in 1..Len(hits) : hits[i] = maxHits(hits) }

\* C4: when no category reaches 2 keyword matches, detectContentType returns
\* the caller's content type unchanged.
C4_WeakSignalKeepsUserType ==
    calledDetect =>
        \A hits \in {keywordHits(req.content)} :
            maxHits(hits) < 2 => result.type = req.contentType

\* one financial keyword only: the user's "blog" is kept
C4_Witness ==
    /\ calledDetect
    /\ req.content = "money "
    /\ req.contentType = Str("blog")
    /\ result.type = Str("blog")

\* C5 as stated: among several categories with the highest score (of 2 or
\* more), the first in the order of the keyword table is returned.
C5_TieKeepsFirst ==
    calledDetect =>
        \A hits \in {keywordHits(req.content)} :
            (maxHits(hits) >= 2 /\ Cardinality(bestTypes(hits)) >= 2) =>
                result.type = Str(keywordTypes[Min(bestTypes(hits))])

\* C5 as amended: among several categories with the highest score (of 2 or
\* more), the last in the order of the keyword table is returned.
C5_TieKeepsLast ==
    calledDetect =>
        \A hits \in {keywordHits(req.content)} :
            (maxHits(hits) >= 2 /\ Cardinality(bestTypes(hits)) >= 2) =>
                result.type = Str(keywordTypes[Max(bestTypes(hits))])

\* charitable and financial both score 2: financial, the later one, wins
C5_Witness ==
    /\ calledDetect
    /\ req.content = "donations markets "
    /\ keywordHits(req.content) = <<2, 2, 0, 0, 0, 0>>
    /\ result.type = Str("financial")

\* C6: a highest score of 2 or more makes detectContentType return a category
\* with that score, whatever content type the user selected; a score is the
\* number of the category's keywords that are substrings of the lower-cased text.
C6_StrongSignalOverrides ==
    calledDetect =>
        \A hits \in {keywordHits(req.content)} :
            maxHits(hits) >= 2 =>
                /\ result.type.defined
                /\ result.type.val \in { keywordTypes[i] : i \in bestTypes(hits) }

\* "Finance money " has two financial keywords once lower-cased; the user's "blog" is overridden
C6_Witness ==
    /\ calledDetect
    /\ req.content = "Finance money "
    /\ req.contentType = Str("blog")
    /\ result.type = Str("financial")

calledGen == pc = "done" /\ result.op \in {"generateTitles", "generateDescriptions", "generateSocialCopy"}

audienceSlots ==
    UNION { { <<"generateTitles", x[1], x[2]>> :
                x \in { y \in BucketTypes \X (1..14) : a[y[1]][y[2]] # b[y[1]][y[2]] } } :
            a \in {titleTemplates("m", "s", Str("a"))}, b \in {titleTemplates("m", "s", Str("b"))} }
    \cup
    UNION { { <<"generateDescriptions", x[1], x[2]>> :
                x \in { y \in BucketTypes \X (1..9) : y[2] <= Len(a[y[1]]) /\ a[y[1]][y[2]] # b[y[1]][y[2]] } } :
            a \in {descriptionTemplates("m", "s", Str("a"), "a")},
            b \in {descriptionTemplates("m", "s", Str("b"), "b")} }
    \cup
    UNION { { <<"generateSocialCopy", x[1], x[2]>> :
                x \in { y \in BucketTypes \X (1..9) : y[2] <= Len(a[y[1]]) /\ a[y[1]][y[2]] # b[y[1]][y[2]] } } :
            a \in {socialTemplates("m", Str("a"), "a")},
            b \in {socialTemplates("m", Str("b"), "b")} }

hasAudienceSlot(i) == <<result.op, result.bucket, result.picks[i]>> \in audienceSlots

blankAudience == ~req.targetAudience.defined \/ trim(req.targetAudience.val) = ""

\* C8 as stated: with a blank or missing audience, every returned string whose
\* template has an audience slot carries 'professionals' in it.
C8_BlankAudienceIsProfessionals ==
    (calledGen /\ blankAudience) =>
        \A i \in 1..Len(result.strings) :
            hasAudienceSlot(i) => includes(result.strings[i], "professionals")

\* C9 as stated: with main topic 'finance' and audience 'managers', every
\* chosen template, once interpolated, contains 'finance' and 'managers'.
C9_TopicAndAudienceVerbatim ==
    (calledGen /\ req.content = "finance" /\ req.targetAudience = Str("managers")) =>
        \A i \in 1..Len(result.interpolated) :
            /\ includes(result.interpolated[i], "finance")
            /\ includes(result.interpolated[i], "managers")

\* C9 as amended: with main topic 'finance' and audience 'managers', every
\* chosen template, once interpolated, contains the topic (capitalised,
\* 'Finance', in a title and verbatim in a description or a social post) and,
\* when it has an audience slot, 'managers' verbatim.
C9_TopicAndSlottedAudience ==
    (calledGen /\ req.content = "finance" /\ req.targetAudience = Str("managers")) =>
        \A i \in 1..Len(result.interpolated) :
            /\ includes(result.interpolated[i],
                        IF result.op = "generateTitles" THEN "Finance" ELSE "finance")
            /\ hasAudienceSlot(i) => includes(result.interpolated[i], "managers")

\* an article title with an audience slot next to one without
C9_Witness ==
    /\ calledGen
    /\ result.op = "generateTitles"
    /\ req.content = "finance"
    /\ req.targetAudience = Str("managers")
    /\ result.bucket = "article"
    /\ \E i, j \in 1..Len(result.interpolated) :
          /\ hasAudienceSlot(i)
          /\ includes(result.interpolated[i], "Finance")
          /\ includes(result.interpolated[i], "managers")
          /\ ~hasAudienceSlot(j)
          /\ ~includes(result.interpolated[j], "managers")

\* the emoji the professional title rules strip
strippedEmoji == titleToneRules.professional[2].pattern

\* C10: a title returned for the professional tone contains no '!', also when
\* the audience brought one in; an article title for the audience 'managers'
\* contains none of the stripped emoji.
C10_ProfessionalTitlesCalm ==
    (calledGen /\ result.op = "generateTitles" /\ req.tone = Str("professional")) =>
        /\ \A i \in 1..Len(result.strings) : ~includes(result.strings[i], "!")
        /\ (result.bucket = "article" /\ req.targetAudience = Str("managers")) =>
              \A i \in 1..Len(result.strings) :
                  \A e \in 1..Len(strippedEmoji) : ~includes(result.strings[i], strippedEmoji[e])

\* the audience " Expert buyers!! " reaches a title, which is returned with
\* both '!' turned into '.'
C10_Witness ==
    /\ calledGen
    /\ result.op = "generateTitles"
    /\ req.tone = Str("professional")
    /\ req.targetAudience = Str(" Expert buyers!! ")
    /\ \E i \in 1..Len(result.strings) :
          /\ includes(result.interpolated[i], "buyers!! ")
          /\ includes(result.strings[i], "buyers.. ")

\* the tone selects no case of the switch
unknownTone == ~req.tone.defined \/ req.tone.val \notin {"professional", "casual", "friendly", "authoritative"}

\* C11 as stated: for a missing or unknown tone every returned title,
\* description and social post equals its interpolated template.
C11_UnknownToneUnchanged ==
    (calledGen /\ unknownTone) => result.strings = result.interpolated

\* C11 as amended: for a missing or unknown tone every returned title and
\* description equals its interpolated template, and every returned social
\* post equals its interpolated template with its hashtags formatted by
\* formatHashtags.
C11_UnknownToneOnlyHashtags ==
    (calledGen /\ unknownTone) =>
        \A i \in 1..Len(result.strings) :
            result.strings[i] = IF result.op = "generateSocialCopy"
                                THEN formatHashtags(result.interpolated[i])
                                ELSE result.interpolated[i]

\* a social post returned for the unknown tone 'playful': the text is the
\* template's, the hashtag '#finance' has become '#Finance'
C11_Witness ==
    /\ calledGen
    /\ result.op = "generateSocialCopy"
    /\ req.tone = Str("playful")
    /\ req.content = "finance"
    /\ \E i \in 1..Len(result.strings) :
          /\ includes(result.interpolated[i], "#finance")
          /\ includes(result.strings[i], "#Finance")
          /\ ~includes(result.strings[i], "#finance")
          /\ result.strings[i] # result.interpolated[i]

calledCompliance == pc \in {"done", "repeated"} /\ result.op = "complianceCheck"

\* the listed words of a list that occur in the text in any letter case
listed(list, content) ==
    { k \in 1..Len(list) : includes(toLowerCase(content), toLowerCase(list[k])) }

\* the positions of the warnings that begin with prefix
warningsWith(prefix) ==
    { i \in 1..Len(result.warnings) : startsWithAt(result.warnings[i], 1, prefix) }

\* C12: a text that contains a listed red word as a substring, in any letter
\* case and without regard to word boundaries, gets exactly one warning that
\* begins with 'Red words found:', and this warning lists the word.
C12_RedWordWarned ==
    calledCompliance =>
        \A k \in listed(prohibitedWords.red_words, req.content) :
            /\ Cardinality(warningsWith("Red words found:")) = 1
            /\ \A i \in warningsWith("Red words found:") :
                  includes(result.warnings[i], prohibitedWords.red_words[k])

\* 'art' inside 'cart' and 'Guarantee' inside 'Guaranteed': one warning, both listed
C12_Witness ==
    /\ calledCompliance
    /\ req.content = "cart Guaranteed "
    /\ result.warnings = <<"Red words found: Guarantee, art">>

\* the warning a list is due: its category, ' found: ', and the listed words
\* that occur in the text, in list order, separated by ', '
RECURSIVE listing(_, _, _)
listing(list, hits, k) ==
    IF k > Len(list) THEN ""
    ELSE IF k \in hits
         THEN (IF \E h \in hits : h < k THEN ", " ELSE "") \o list[k] \o listing(list, hits, k + 1)
         ELSE listing(list, hits, k + 1)

categories == <<"Red words", "Yellow words", "US-specific terms">>

categoryList(c) ==
    IF c = 1 THEN prohibitedWords.red_words
    ELSE IF c = 2 THEN prohibitedWords.yellow_words
    ELSE prohibitedWords.us_specific_terms

\* the categories that have a match in the text
matched == { c \in 1..3 : listed(categoryList(c), req.content) # {} }

returnedTo(c) == callers[c].pc = "done" /\ callers[c].return.returned

\* the caller has issued a generation call to the model
generationCalls(c) == \E part \in Parts : callers[c].model[part] # "none"

\* C14: when the service is not available (no API key, or the startup probe
\* failed), generateMetadata returns exactly what templateFallback returns
\* and issues no generation call to the model.
C14_UnavailableUsesFallback ==
    \A c \in DOMAIN callers :
        (returnedTo(c) /\ ~isAvailable) =>
            /\ callers[c].return.value = templateFallbackValue
            /\ callers[c].fallbackCalls = 1
            /\ ~generationCalls(c)

\* the key is set, the probe has failed, and a call has returned the fallback's value
C14_Witness ==
    /\ env.apiKey
    /\ initPc = "done"
    /\ ~isAvailable
    /\ \E c \in DOMAIN callers :
          /\ returnedTo(c)
          /\ callers[c].return.value = templateFallbackValue
          /\ callers[c].fallbackCalls = 1

\* C15 as stated: when the service is available and a model call for
\* titles, descriptions or social copy rejects, generateMetadata returns
\* what templateFallback returns.
C15_FailedGenerationUsesFallback ==
    \A c \in DOMAIN callers :
        (returnedTo(c) /\ isAvailable /\ \E part \in Parts : callers[c].model[part] = "rejected") =>
            /\ callers[c].return.value = templateFallbackValue
            /\ callers[c].fallbackCalls = 1

\* C18: generateMetadata uses templateFallback or calls the model only once
\* initialized is true, and then according to isAvailable as the startup
\* check left it: the fallback when it is false, the model when it is true.
C18_NothingBeforeInitialized ==
    \A c \in DOMAIN callers :
        /\ (callers[c].fallbackCalls > 0 \/ generationCalls(c)) => initialized
        /\ callers[c].fallbackCalls > 0 => ~isAvailable
        /\ generationCalls(c) => isAvailable
        /\ callers[c].pc \in {"generating", "done"} => initialized

\* a call made before the probe had resolved has awaited the timer and then
\* gone to the model
C18_Witness ==
    /\ initialized
    /\ isAvailable
    /\ \E c \in DOMAIN callers :
          /\ callers[c].slept
          /\ returnedTo(c)
          /\ \A part \in Parts : callers[c].model[part] = "resolved"
          /\ callers[c].fallbackCalls = 0

\* the surviving tokens of the request's text, in order of occurrence
surviving == words(req.content)

\* position of the first occurrence of a surviving token
firstAt(word) == Min({ i \in 1..Len(surviving) : surviving[i] = word })

\* the returned topics that are tokens of the text (what is left is padding)
rankedPart == SelectSeq(result.topics, LAMBDA topic : \E i \in 1..Len(surviving) : surviving[i] = topic)

\* C17: among surviving tokens with equal frequency, extractKeyTopics orders
\* them by first occurrence in the text, whatever the token is made of
\* (letters, digits, underscores).
C17_TiesByFirstOccurrence ==
    calledTopics =>
        \A ranked \in {rankedPart} :
            \A i, j \in 1..Len(ranked) :
                (i < j /\ countOf(surviving, ranked[i]) = countOf(surviving, ranked[j])) =>
                    firstAt(ranked[i]) < firstAt(ranked[j])

\* C19: before padding, extractKeyTopics returns the min(count, number of
\* distinct surviving tokens) most frequent surviving tokens, in
\* non-increasing order of frequency; a token that occurs strictly more often
\* than another is never ranked after it, nor left out in its favour.
C19_MostFrequentFirst ==
    (calledTopics /\ req.maxTopics >= 0) =>
        \A ranked \in {rankedPart} :
            \A distinct \in {{ surviving[i] : i \in 1..Len(surviving) }} :
                /\ Len(ranked) = Min({req.maxTopics, Cardinality(distinct)})
                /\ \A i, j \in 1..Len(ranked) :
                       i < j => countOf(surviving, ranked[i]) >= countOf(surviving, ranked[j])
                /\ \A i \in 1..Len(ranked) : \A word \in distinct :
                       countOf(surviving, word) > countOf(surviving, ranked[i]) =>
                           \E j \in 1..i : ranked[j] = word

\* the replacement rules of the operation that ran, for the request's tone
rulesInForce ==
    toneRules(IF result.op = "generateTitles" THEN titleToneRules
              ELSE IF result.op = "generateDescriptions" THEN descriptionToneRules
              ELSE socialToneRules,
              req.tone)

\* the text after the first n rules, each applied to the output of the one before
RECURSIVE afterRules(_, _, _)
afterRules(s, rules, n) == IF n = 0 THEN s ELSE replaceAll(afterRules(s, rules, n - 1), rules[n])

\* C20: every returned string is its interpolated template after the tone's
\* rules applied one after another in source order, each to the output of the
\* previous one (social copy then has its hashtags formatted); for the tone
\* 'friendly' a title's 'Comprehensive Guide' is returned as 'Complete Guide'.
C20_RulesInSourceOrder ==
    calledGen =>
        \A rules \in {rulesInForce} :
            \A i \in 1..Len(result.strings) :
                /\ result.strings[i] =
                       IF result.op = "generateSocialCopy"
                       THEN formatHashtags(afterRules(result.interpolated[i], rules, Len(rules)))
                       ELSE afterRules(result.interpolated[i], rules, Len(rules))
                /\ (result.op = "generateTitles" /\ req.tone = Str("friendly")
                       /\ includes(result.interpolated[i], "Comprehensive Guide")) =>
                      /\ includes(result.strings[i], "Complete Guide")
                      /\ ~includes(result.strings[i], "Comprehensive")

\* a friendly title whose 'Comprehensive Guide' came in with the audience
C20_Witness ==
    /\ calledGen
    /\ result.op = "generateTitles"
    /\ req.tone = Str("friendly")
    /\ \E i \in 1..Len(result.strings) :
          /\ includes(result.interpolated[i], "Comprehensive Guide readers")
          /\ includes(result.strings[i], "Complete Guide readers")
          /\ ~includes(result.strings[i], "Friendly Guide to readers")

\* the bodies /api/generate can send for a request run alone, over every
\* outcome of its three shuffles
aloneGenerate ==
    [body \in GenerateBodies |->
        [titles       |-> { t.strings : t \in generateTitles(body.content, body.contentType,
                                                            body.targetAudience, body.tone) },
         descriptions |-> { d.strings : d \in generateDescriptions(body.content, body.contentType,
                                                                  body.targetAudience, body.tone) },
         socialCopy   |-> { s.strings : s \in generateSocialCopy(body.content, body.contentType,
                                                                body.targetAudience, body.tone) }]]

\* the body /api/compliance/check sends for a request run alone
aloneCompliance ==
    [body \in ComplianceBodies |-> [warnings |-> complianceWarnings(prohibitedWordsJson, body.content)]]

\* the response to a request without content, run alone
aloneFailure ==
    [generate   |-> [sent |-> TRUE, status |-> 500, body |-> [error |-> "Failed to generate metadata"]],
     compliance |-> [sent |-> TRUE, status |-> 500, body |-> [error |-> "Failed to check compliance"]]]

answered(r) == requests[r].pc = "responded" /\ requests[r].response.sent

\* C16: in every interleaving of generate and compliance-check requests,
\* each response is one the same request could get when run alone, and the
\* word lists read by later requests are as they were loaded.
C16_RequestsIndependent ==
    /\ (DOMAIN requests # {}) => prohibitedWords = prohibitedWordsJson
    /\ \A r \in DOMAIN requests :
           answered(r) =>
               IF throws(requests[r].body)
               THEN requests[r].response = aloneFailure[requests[r].kind]
               ELSE IF requests[r].kind = "generate"
               THEN /\ requests[r].response.status = 200
                    /\ requests[r].response.body.titles \in aloneGenerate[requests[r].body].titles
                    /\ requests[r].response.body.descriptions \in aloneGenerate[requests[r].body].descriptions
                    /\ requests[r].response.body.socialCopy \in aloneGenerate[requests[r].body].socialCopy
                    /\ requests[r].response.body.warnings = <<>>
               ELSE /\ requests[r].response.status = 200
                    /\ requests[r].response.body = aloneCompliance[requests[r].body]

\* two generate requests with different bodies, each answered after the
\* other's handler ran during its wait
C16_Witness ==
    /\ DOMAIN requests # {}
    /\ \E r, q \in DOMAIN requests :
          /\ r # q
          /\ requests[r].kind = "generate" /\ requests[q].kind = "generate"
          /\ requests[r].body # requests[q].body
          /\ ~throws(requests[r].body) /\ ~throws(requests[q].body)
          /\ answered(r) /\ answered(q)
          /\ requests[r].overlapped /\ requests[q].overlapped
          /\ requests[r].response.body # requests[q].response.body

calledHashtags == pc \in {"done", "repeated"} /\ result.op = "formatHashtags"

\* the text formatHashtags was given
hashtagInput == IF pc = "repeated" THEN result.earlier ELSE req.content

\* position p of text is the first character of a hashtag: a word character behind a '#'
startsHashtag(text, p) == p > 1 /\ CharAt(text, p - 1) = "#" /\ IsWordChar(CharAt(text, p))

\* the hashtag that covers position p of text begins at position hashtagStart(text, p) (0: none does)
RECURSIVE hashtagStart(_, _)
hashtagStart(text, p) ==
    IF p < 1 \/ ~IsWordChar(CharAt(text, p)) THEN 0
    ELSE IF startsHashtag(text, p) THEN p
    ELSE hashtagStart(text, p - 1)

\* the word of the hashtag beginning at position p
hashtagAt(text, p) == SubSeq(text, p, p + wordCharsLen(text, p) - 1)

plainHashtag(word) == ~includes(word, "_") /\ word = toLowerCase(word)

\* C21: formatHashtags rewrites every '#word' and nothing else.  A character
\* outside a hashtag is kept; the first character of a hashtag is upper-cased;
\* the other characters of a hashtag with no capital letter and no underscore
\* are kept, and in any other hashtag a character that begins a piece (a
\* capital letter) is upper-cased and a character inside a piece is
\* lower-cased.  Applying formatHashtags to its own output changes nothing.
C21_HashtagsFormatted ==
    calledHashtags =>
        \A input \in {hashtagInput} :
            /\ Len(result.text) = Len(input)
            /\ \A p \in 1..Len(input) :
                   \A start \in {hashtagStart(input, p)} :
                       CharAt(result.text, p) =
                           IF start = 0 THEN CharAt(input, p)
                           ELSE IF start = p THEN UpperChar(CharAt(input, p))
                           ELSE IF plainHashtag(hashtagAt(input, start)) THEN CharAt(input, p)
                           ELSE IF CharAt(input, p) \in UpperSet THEN UpperChar(CharAt(input, p))
                           ELSE LowerChar(CharAt(input, p))
            /\ pc = "repeated" => result.text = result.earlier

\* '#planP' is rewritten behind a capital letter that no '#' precedes, and
\* the second application returns the same text
C21_Witness ==
    /\ pc = "repeated"
    /\ result.op = "formatHashtags"
    /\ req.content = "P#planP"
    /\ result.earlier = "P#PlanP"
    /\ result.text = "P#PlanP"

\* the caller got the result of the AI path: the model was called and the
\* fallback was not
aiResult(c) == returnedTo(c) /\ generationCalls(c) /\ callers[c].fallbackCalls = 0

\* most entries of each field of an AI result
partLimit == [titles |-> 5, descriptions |-> 3, socialCopy |-> 3]

\* the lines of text, each with the position where it begins and its text
\* without the white space around it: a line lies between two neighbouring
\* line ends, the ends of the text counting as line ends
linesIn(text) ==
    LET ends == { p \in 1..Len(text) : CharAt(text, p) = "\n" } \cup {0, Len(text) + 1}
    IN  { [start |-> p + 1, line |-> trim(SubSeq(text, p + 1, q - 1))] :
          <<p, q>> \in { pq \in ends \X ends : pq[1] < pq[2] /\ \A r \in ends : ~(pq[1] < r /\ r < pq[2]) } }

\* C22: on the AI path every field of the result is a list, never null, of
\* at most 5 titles and at most 3 descriptions and social posts; every entry
\* is a trimmed, non-blank line of the model's response for that part, and
\* the entries follow the order of the lines.
C22_AiResultShape ==
    \A c \in DOMAIN callers :
        aiResult(c) =>
            \A part \in Parts :
                \A entries \in {callers[c].return.value[part]} :
                    \A lines \in {linesIn(callers[c].text[part])} :
                        /\ DOMAIN entries = 1..Len(entries)
                        /\ Len(entries) <= partLimit[part]
                        /\ \A i \in 1..Len(entries) :
                               /\ entries[i] # ""
                               /\ trim(entries[i]) = entries[i]
                               /\ \E l \in lines : l.line = entries[i]
                        /\ \A i, j \in 1..Len(entries) :
                               i < j => \E l, m \in lines :
                                            l.line = entries[i] /\ m.line = entries[j] /\ l.start < m.start

\* one call whose titles keep five of six lines, whose descriptions come from
\* a text of blank lines only, and whose social-copy call was rejected
C22_Witness ==
    \E c \in DOMAIN callers :
        /\ aiResult(c)
        /\ callers[c].return.value.titles = <<"One", "Two", "Three", "Four", "Five">>
        /\ callers[c].model["descriptions"] = "resolved"
        /\ callers[c].return.value.descriptions = <<>>
        /\ callers[c].model["socialCopy"] = "rejected"
        /\ callers[c].return.value.socialCopy = <<>>

\* the table of interpolated templates the operation that ran has built
tableBuilt ==
    IF result.op = "generateTitles"
    THEN LET topics == extractKeyTopics(req.content, 3)
         IN  titleTemplates(topicAt(topics, 1, "content"), topicAt(topics, 2, "strategies"), req.targetAudience)
    ELSE LET topics == extractKeyTopics(req.content, 2)
         IN  IF result.op = "generateDescriptions"
             THEN descriptionTemplates(topicAt(topics, 1, "content"), topicAt(topics, 2, "information"),
                                       req.targetAudience, validAudienceOf(req.targetAudience))
             ELSE socialTemplates(topicAt(topics, 1, "content"), req.targetAudience,
                                  validAudienceOf(req.targetAudience))

\* number of strings the operation that ran returns at most
sliceEnd == IF result.op = "generateTitles" THEN 5 ELSE 3

\* C23: the returned strings come from pairwise distinct templates of the
\* resolved bucket: as many as the slice takes (or the whole bucket if it is
\* smaller), each the tone transformation of the interpolated template at its
\* position of the bucket, and no position is used twice.
C23_DistinctTemplates ==
    calledGen =>
        \A bucket \in {tableBuilt[result.bucket]} :
            \A rules \in {rulesInForce} :
                /\ Len(result.picks) = Min({sliceEnd, Len(bucket)})
                /\ Len(result.strings) = Len(result.picks)
                /\ \A i \in 1..Len(result.picks) :
                       /\ result.picks[i] \in 1..Len(bucket)
                       /\ result.interpolated[i] = bucket[result.picks[i]]
                       /\ result.strings[i] =
                              IF result.op = "generateSocialCopy"
                              THEN formatHashtags(afterRules(bucket[result.picks[i]], rules, Len(rules)))
                              ELSE afterRules(bucket[result.picks[i]], rules, Len(rules))
                /\ \A i, j \in 1..Len(result.picks) : i # j => result.picks[i] # result.picks[j]

\* five titles taken from the end of a bucket around to its beginning
C23_Witness ==
    /\ calledGen
    /\ result.op = "generateTitles"
    /\ Len(result.picks) = 5
    /\ result.picks[1] > result.picks[5]
    /\ result.picks[1] < result.picks[2]
    /\ \A i, j \in 1..5 : i # j => result.strings[i] # result.strings[j]

\* the table of templates with the first and second entries of
\* extractKeyTopics put in as they are
tableOfExtracted ==
    IF result.op = "generateTitles"
    THEN LET topics == extractKeyTopics(req.content, 3)
         IN  titleTemplates(topics[1], topics[2], req.targetAudience)
    ELSE LET topics == extractKeyTopics(req.content, 2)
         IN  IF result.op = "generateDescriptions"
             THEN descriptionTemplates(topics[1], topics[2], req.targetAudience, validAudienceOf(req.targetAudience))
             ELSE socialTemplates(topics[1], req.targetAudience, validAudienceOf(req.targetAudience))

\* C24: the main and secondary topics interpolated into the templates are
\* exactly the first and second entries returned by extractKeyTopics (the
\* main topic with its first letter upper-cased in titles), for every token
\* the extractor can return.
C24_TopicsAsExtracted ==
    calledGen =>
        \A bucket \in {tableOfExtracted[result.bucket]} :
            \A i \in 1..Len(result.picks) : result.interpolated[i] = bucket[result.picks[i]]

\* C25: when a handler throws on its request (a body without content), the
\* response is status 500 with an error object and nothing else, and no
\* result was built or sent for it; a request handled after such a failure
\* is answered with status 200 and its usual body.
C25_FailureAnswered500 ==
    \A r \in DOMAIN requests :
        /\ (throws(requests[r].body) /\ requests[r].pc # "arrived") =>
               /\ requests[r].pc = "responded"
               /\ requests[r].response.sent
               /\ requests[r].response.status = 500
               /\ DOMAIN requests[r].response.body = {"error"}
               /\ requests[r].result = noResult
        /\ (~throws(requests[r].body) /\ answered(r)) =>
               /\ requests[r].response.status = 200
               /\ DOMAIN requests[r].response.body =
                      IF requests[r].kind = "generate"
                      THEN {"titles", "descriptions", "socialCopy", "warnings"}
                      ELSE {"warnings"}
               /\ requests[r].kind = "compliance" =>
                      requests[r].response.body = aloneCompliance[requests[r].body]
               /\ requests[r].kind = "generate" =>
                      requests[r].response.body.titles \in aloneGenerate[requests[r].body].titles

\* a generate request without content was answered 500, and a generate
\* request whose handler ran after that answer got its five titles
C25_Witness ==
    /\ DOMAIN requests # {}
    /\ \E r, q \in DOMAIN requests :
          /\ requests[r].kind = "generate" /\ throws(requests[r].body)
          /\ requests[r].response = [sent |-> TRUE, status |-> 500,
                                     body |-> [error |-> "Failed to generate metadata"]]
          /\ requests[q].kind = "generate" /\ ~throws(requests[q].body)
          /\ requests[q].served = 1
          /\ answered(q)
          /\ requests[q].response.status = 200
          /\ Len(requests[q].response.body.titles) = 5

\* generateMetadata of the front end has returned a result
clientReturned == client # <<>> /\ client.returned.present

\* C26: the merged result of the client keeps titles, descriptions and
\* socialCopy as /api/generate returned them; its warnings are those of the
\* generate response followed by those of the compliance check, and those of
\* the generate response alone when the compliance response is not OK.
C26_MergedResult ==
    clientReturned =>
        \A data \in {client.returned.body} :
            \A generated \in {client.generated.body} :
                /\ DOMAIN data = DOMAIN generated
                /\ data.titles = generated.titles
                /\ data.descriptions = generated.descriptions
                /\ data.socialCopy = generated.socialCopy
                /\ client.compliance = "ok" =>
                       data.warnings = generated.warnings \o
                                       complianceWarnings(prohibitedWordsJson, client.formData.body.content)
                /\ client.compliance = "notOk" => data.warnings = generated.warnings
                /\ client.compliance \in {"ok", "notOk"}
                /\ client.displayed = client.returned

\* a generate response that already carries a warning, merged with two
\* compliance warnings
C26_Witness ==
    /\ clientReturned
    /\ client.compliance = "ok"
    /\ client.generated.body.warnings = <<"Review before publishing">>
    /\ client.returned.body.warnings =
           <<"Review before publishing", "Red words found: Guarantee", "Yellow words found: best">>
    /\ Len(client.returned.body.titles) = 5

\* a submission is in progress
submitting == client # <<>> /\ client.pc # "idle"

buttonDisabled == client # <<>> /\ client.disabled

initCompleted == initPc = "done"

\* a generateMetadata call takes a step
callerSteps == \E c \in DOMAIN callers : callers'[c] # callers[c]

\* C27: once init() has completed, initialized is true and stays true, and
\* isAvailable is the outcome of the one startup probe (true only if the API
\* key was set and the probe succeeded) and changes no more; no step of a
\* generateMetadata call, successful or failed, changes either flag.
C27_FlagsSettled ==
    /\ [](initCompleted => (initialized /\ (isAvailable <=> (env.apiKey /\ env.probe = "resolved"))))
    /\ [][initCompleted => (initialized' /\ isAvailable' = isAvailable /\ initCompleted')]_vars
    /\ [][callerSteps => UNCHANGED <<isAvailable, initialized>>]_vars

\* after a rejected probe and completed init(), a call has returned the
\* fallback and the service is still unavailable
C27_Witness ==
    /\ initCompleted
    /\ initialized
    /\ env.apiKey
    /\ env.probe = "rejected"
    /\ ~isAvailable
    /\ \E c \in DOMAIN callers : returnedTo(c) /\ callers[c].fallbackCalls = 1

mainTopicOf ==
    topicAt(extractKeyTopics(req.content, IF result.op = "generateTitles" THEN 3 ELSE 2), 1, "content")

\* C30: whatever the tone, every returned title contains the capitalised main
\* topic as it was interpolated, every returned description contains the main
\* topic as it was interpolated, and a returned string whose template has an
\* audience slot contains the audience that was given.
C30_InterpolatedTextKept ==
    calledGen =>
        \A i \in 1..Len(result.strings) :
            /\ result.op = "generateTitles" => includes(result.strings[i], capitalize(mainTopicOf))
            /\ result.op = "generateDescriptions" => includes(result.strings[i], mainTopicOf)
            /\ (hasAudienceSlot(i) /\ ~blankAudience) =>
                  includes(result.strings[i], trim(req.targetAudience.val))
====
